---------------------------- MODULE Spec2Model ----------------------------
(***************************************************************************)
(* The front end of the Azalea compiler: the preprocessor                  *)
(* (shared/preprocessor), the span model and the lexer (shared/lexer).     *)
(* A source text is a sequence of characters; a character is a string      *)
(* naming it.                                                              *)
(***************************************************************************)
EXTENDS Integers, Sequences, FiniteSets, TLC

(* ------------------------------ bounds --------------------------------- *)
\* longest raw text over PreChars given to the preprocessor
MaxPreLen == 3
\* longest raw text over CommentChars given to the preprocessor
MaxCommentLen == 6
\* most preprocessor operations chained on one Preprocessor value
MaxOps == 4
\* longest text over LexChars given to the lexer
MaxSrcLen == 3
\* longest text over IdentChars given to the lexer
MaxIdentSrcLen == 5
\* longest text over NumberChars given to the lexer
MaxNumberSrcLen == 6
\* the declarations and stray tokens put together into one token stream
MaxFragments == 3
\* the tokens between the brackets of a choice declaration
MaxVariantTokens == 3
\* the nodes pushed to a SymbolTable
MaxNodes == 4
\* the longest source file given to the driver
MaxDriverLen == 3
\* the tokens of a stream, and the reports printed, in the steps on the
\* parser position
MaxPosTokens == 3
MaxPosDiags == 1

(* ---------------------------- characters ------------------------------- *)
\* U+0001, an ASCII control character
SOH == "U+0001"
\* U+00E9, a letter outside ASCII (two bytes in UTF-8)
EACUTE == "U+00E9"
\* U+20AC, a symbol outside ASCII (three bytes in UTF-8)
EURO == "U+20AC"

\* U+0022, U+005C and U+0060: the quotation mark, the backslash, the grave
DQUOTE == "U+0022"
BACKSLASH == "U+005C"
GRAVE == "U+0060"

AsciiLetters ==
    {"a", "b", "c", "d", "e", "f", "g", "h", "i", "j", "k", "l", "m", "n",
     "o", "p", "q", "r", "s", "t", "u", "v", "w", "x", "y", "z", "A", "Z"}
AsciiDigits == {"0", "1", "2", "3", "4", "5", "6", "7", "8", "9"}
AsciiWhitespace == {" ", "\n", "\t", "\r"}
AsciiPunctuation ==
    {"!", DQUOTE, "#", "$", "%", "&", "'", "(", ")", "*", "+", ",", "-", ".",
     "/", ":", ";", "<", "=", ">", "?", "@", "[", BACKSLASH, "]", "^", "_", GRAVE,
     "{", "|", "}", "~"}
AsciiControl == {SOH}
NonAsciiLetters == {EACUTE}
NonAsciiSymbols == {EURO}

is_ascii(ch) ==
    ch \in AsciiLetters \cup AsciiDigits \cup AsciiWhitespace
             \cup AsciiPunctuation \cup AsciiControl
is_alphabetic(ch) == ch \in AsciiLetters \cup NonAsciiLetters
is_numeric(ch) == ch \in AsciiDigits
is_alphanumeric(ch) == is_alphabetic(ch) \/ is_numeric(ch)
is_whitespace(ch) == ch \in AsciiWhitespace
is_ascii_punctuation(ch) == ch \in AsciiPunctuation
\* bytes of the character in the UTF-8 encoding of a String
len_utf8(ch) ==
    IF is_ascii(ch) THEN 1 ELSE IF ch \in NonAsciiLetters THEN 2 ELSE 3

\* the texts of at most n characters over the alphabet A
Strings(A, n) == UNION {[1..k -> A] : k \in 0..n}

\* Option<char>: the absent value
None == "None"

(* ---------------------------- preprocessor ----------------------------- *)
VALID_PUNC ==
    {";", ":", "_", ",", "(", ")", "{", "}", "+", "-", "*", "/", "%", "&",
     "|", "=", "<", ">", "!"}
VALID_CONTROL == {"\n", "\t", "\r"}

Diag(id, offset) == [id |-> id, offset |-> offset]

\* chars.peek() of a Peekable<Chars> that has yielded p characters of s
PeekAt(s, p) == IF p < Len(s) THEN s[p + 1] ELSE None

\* the character normalize_to_ascii rejects
BadCharacter(ch) ==
    /\ ch \notin VALID_CONTROL
    /\ ~is_alphanumeric(ch)
    /\ ~is_whitespace(ch)
    /\ ch \notin VALID_PUNC

\* Preprocessor::normalize_to_ascii: the first rejected character fails the
\* call with bad-character at its index, otherwise the content is returned
normalize_to_ascii(s) ==
    LET bad == {k \in 1..Len(s) : BadCharacter(s[k])}
    IN  IF bad = {}
        THEN [status |-> "Ok", content |-> s, diags |-> <<>>]
        ELSE LET k == CHOOSE i \in bad : \A j \in bad : i <= j
             IN  [status |-> "Failed", content |-> s,
                  diags |-> <<Diag("bad-character", k - 1)>>]

\* the inner while loop of remove_singleline_comments, entered with p
\* characters yielded: it ends when chars.peek() is a newline, so only if a
\* newline is left; SkipToNewline is the number of characters yielded then
NewlinesAfter(s, p) == {k \in (p + 1)..Len(s) : s[k] = "\n"}
SkipToNewline(s, p) ==
    (CHOOSE i \in NewlinesAfter(s, p) : \A j \in NewlinesAfter(s, p) : i <= j) - 1

RECURSIVE SingleLoop(_, _, _)
SingleLoop(s, p, result) ==
    IF p >= Len(s)
    THEN [status |-> "Ok", content |-> result, diags |-> <<>>]
    ELSE LET ch == s[p + 1]
         IN  IF ch = "/" /\ PeekAt(s, p + 1) = "/"
             THEN IF NewlinesAfter(s, p + 1) = {}
                  THEN [status |-> "Hang", content |-> s, diags |-> <<>>]
                  ELSE SingleLoop(s, SkipToNewline(s, p + 1) + 1,
                                  Append(result, "\n"))
             ELSE SingleLoop(s, p + 1, Append(result, ch))

\* Preprocessor::remove_singleline_comments
remove_singleline_comments(s) == SingleLoop(s, 0, <<>>)

\* remove_multiline_comment: MultiLoop is the outer while loop with p
\* characters yielded, CommentLoop the loop that skips a comment; temp_chr is
\* the character taken last and comment_offset the count at the opening
RECURSIVE MultiLoop(_, _, _, _)
RECURSIVE CommentLoop(_, _, _, _, _, _)
CommentLoop(s, p, temp_chr, offset_in_file, result, comment_offset) ==
    IF temp_chr # "*" /\ PeekAt(s, p) # "/"
    THEN IF PeekAt(s, p) = None
         THEN [status |-> "Failed", content |-> s,
               diags |-> <<Diag("missing-terminator", comment_offset)>>]
         ELSE CommentLoop(s, p + 1, s[p + 1], offset_in_file + 1,
                          IF temp_chr # None /\ is_whitespace(temp_chr)
                          THEN Append(result, temp_chr) ELSE result,
                          comment_offset)
    ELSE MultiLoop(s, IF p < Len(s) THEN p + 1 ELSE p,
                   offset_in_file + 1, result)

MultiLoop(s, p, offset_in_file, result) ==
    IF p >= Len(s)
    THEN [status |-> "Ok", content |-> result, diags |-> <<>>]
    ELSE LET ch == s[p + 1]
         IN  IF ch = "/" /\ PeekAt(s, p + 1) = "*"
             THEN LET temp_chr == PeekAt(s, p + 2)
                      q == IF p + 2 < Len(s) THEN p + 3 ELSE p + 2
                  IN  CommentLoop(s, q, temp_chr, offset_in_file + 2, result,
                                  offset_in_file + 2)
             ELSE MultiLoop(s, p + 1, offset_in_file + 1, Append(result, ch))

\* Preprocessor::remove_multiline_comment
remove_multiline_comment(s) == MultiLoop(s, 0, 0, <<>>)

(* -------------------------------- span --------------------------------- *)
\* SpanPoint::new
SpanPoint(line_num, col_num, val) ==
    [line_num |-> line_num, col_num |-> col_num, val |-> val]

\* the loop of Span::new from character k on: only ASCII characters are
\* recorded; a newline starts the next line at column 1
RECURSIVE SpanFrom(_, _, _, _)
SpanFrom(s, k, line_num, col_num) ==
    IF k > Len(s) THEN <<>>
    ELSE IF is_ascii(s[k])
    THEN <<SpanPoint(line_num, col_num, s[k])>>
            \o (IF s[k] = "\n"
                THEN SpanFrom(s, k + 1, line_num + 1, 1)
                ELSE SpanFrom(s, k + 1, line_num, col_num + 1))
    ELSE SpanFrom(s, k + 1, line_num, col_num)

\* Span::new with the column never reset: a newline only starts a line
RECURSIVE SpanFromKeepingColumn(_, _, _, _)
SpanFromKeepingColumn(s, k, line_num, col_num) ==
    IF k > Len(s) THEN <<>>
    ELSE IF is_ascii(s[k])
    THEN <<SpanPoint(line_num, col_num, s[k])>>
            \o SpanFromKeepingColumn(s, k + 1,
                    IF s[k] = "\n" THEN line_num + 1 ELSE line_num,
                    col_num + 1)
    ELSE SpanFromKeepingColumn(s, k + 1, line_num, col_num)
Span_new_KeepingColumn(s) == SpanFromKeepingColumn(s, 1, 1, 1)

\* Span::new: the points of the text, from (1, 1)
Span_new(s) == SpanFrom(s, 1, 1, 1)

(* ------------------------------- tokens -------------------------------- *)
\* TokenKind::is_reserved: the kind of a reserved word, None for any other
is_reserved(raw) ==
    IF raw = <<"f", "l", "o", "a", "t">> THEN "FloatTy" ELSE
    IF raw = <<"i", "n", "t">> THEN "IntTy" ELSE
    IF raw = <<"t", "e", "x", "t">> THEN "TextTy" ELSE
    IF raw = <<"b", "o", "o", "l">> THEN "BoolTy" ELSE
    IF raw = <<"s", "t", "r", "u", "c", "t", "u", "r", "e">> THEN "StructKw" ELSE
    IF raw = <<"c", "h", "o", "i", "c", "e">> THEN "ChoiceKw" ELSE
    IF raw = <<"m", "a", "i", "n">> THEN "MainKw" ELSE
    IF raw = <<"a", "s">> THEN "AsKw" ELSE
    IF raw = <<"o", "r">> THEN "OrKw" ELSE
    IF raw = <<"a", "n", "d">> THEN "AndKw" ELSE
    IF raw = <<"i", "n">> THEN "InKw" ELSE
    IF raw = <<"l", "e", "t">> THEN "LetKw" ELSE
    IF raw = <<"i", "f">> THEN "IfKw" ELSE
    IF raw = <<"e", "l", "i", "f">> THEN "ElifKw" ELSE
    IF raw = <<"e", "l", "s", "e">> THEN "ElseKw" ELSE
    IF raw = <<"w", "h", "i", "l", "e">> THEN "WhileKw" ELSE
    IF raw = <<"f", "o", "r">> THEN "ForKw" ELSE
    IF raw = <<"t", "r", "u", "e">> THEN "BoolLit" ELSE
    IF raw = <<"f", "a", "l", "s", "e">> THEN "BoolLit" ELSE
    None

\* TokenKind::refined_or_ident: <<kind, reserved>>
refined_or_ident(raw) ==
    IF is_reserved(raw) # None THEN <<is_reserved(raw), TRUE>>
    ELSE <<"Ident", FALSE>>

\* String::len: the bytes of the text
RECURSIVE ByteLen(_)
ByteLen(s) == IF s = <<>> THEN 0 ELSE len_utf8(Head(s)) + ByteLen(Tail(s))

\* str::trim().is_empty()
IsBlank(s) == \A k \in 1..Len(s) : is_whitespace(s[k])

\* chars().nth(i)
CharAt(s, i) == IF i < Len(s) THEN s[i + 1] ELSE None

\* usize::saturating_sub
saturating_sub(a, b) == IF a >= b THEN a - b ELSE 0

\* what lex_punctuation makes of character ch, with prev the character
\* peek_previous() gives and next the one peek() gives: a token of one or two
\* characters, or the report of an error
PunctTok(raw, kind) == [tok |-> TRUE, raw |-> raw, kind |-> kind]
PunctErr(id) == [tok |-> FALSE, id |-> id]
one_or_two_chars(ch1, ch2, kind1, kind2, next) ==
    IF next = ch2 THEN PunctTok(<<ch1, ch2>>, kind2)
    ELSE PunctTok(<<ch1>>, kind1)
IdentLike(c) == c # None /\ (is_alphabetic(c) \/ c = "_")
lex_punctuation(ch, prev, next) ==
    CASE ch = "+" -> PunctTok(<<"+">>, "Plus")
      [] ch = "*" -> PunctTok(<<"*">>, "Mul")
      [] ch = "/" -> PunctTok(<<"/">>, "Div")
      [] ch = "-" -> one_or_two_chars("-", ">", "Minus", "RetArrow", next)
      [] ch = ">" -> one_or_two_chars(">", "=", "Gt", "Gte", next)
      [] ch = "=" -> one_or_two_chars("=", "=", "FnDef", "Eq", next)
      [] ch = ";" -> PunctTok(<<";">>, "Semicolon")
      [] ch = "(" -> PunctTok(<<"(">>, "LParn")
      [] ch = ")" -> PunctTok(<<")">>, "RParn")
      [] ch = "{" -> PunctTok(<<"{">>, "LBracket")
      [] ch = "}" -> PunctTok(<<"}">>, "RBracket")
      [] ch = "," -> PunctTok(<<",">>, "Sep")
      [] ch = "<" -> IF next = "-" THEN PunctTok(<<"<", "-">>, "Assign")
                     ELSE IF next = "=" THEN PunctTok(<<"<", "=">>, "Lte")
                     ELSE PunctTok(<<"<">>, "Lt")
      [] ch = ":" -> IF next = ":" THEN PunctTok(<<":", ":">>, "TQualifer")
                     ELSE PunctErr("incomplete-TQualifier")
      [] ch = "." -> IF IdentLike(prev) /\ IdentLike(next)
                     THEN PunctTok(<<".">>, "RecordDot")
                     ELSE IF next = "." THEN PunctTok(<<".", ".">>, "ExRange")
                     ELSE PunctErr("invalid-float")
      [] OTHER -> PunctErr("unsupported-char")

\* the characters whose arm of lex_punctuation starts with
\* peek().expect("Tried to peek pass EOF.")
PeekExpected == {"-", ">", "=", "<", ":"}

(* ------------------------------- state --------------------------------- *)
VARIABLES
    content,         \* Preprocessor.content
    pre_status,      \* "Ready", or how the last preprocessor call ended
    trail,           \* the calls made on the Preprocessor
    diagnostics,     \* the reports printed so far
    source_content,  \* Lexer.source_content
    current_pos,     \* Lexer.current_pos, the Span of the source
    current_tok,     \* Lexer.current_tok
    index,           \* Lexer.index
    eof,             \* Lexer.eof
    hint_tok,        \* Lexer.hint_tok
    found_error,     \* Lexer.found_error
    tokens,          \* the local `tokens` of Lexer::lex
    lex_pc,          \* "idle", "lex" (in lex), "done" (returned), "panic"
    lex_result,      \* what lex returned: "Ok", "Err", or "None" before
    parser_tokens,   \* Parser.tokens
    pos,             \* Parser.pos
    parse_pc,        \* "idle", "ready" (constructed), "done" (called)
    parse_result,    \* what the call on the Parser gave
    nodes,           \* SymbolTable.nodes
    sem_pc,          \* "idle", "open" (table in use), "done" (pass made)
    sem_result       \* the pass made on the table and what it returned

pre_vars == <<content, pre_status, trail>>
lexer_vars == <<source_content, current_pos, current_tok, index, eof,
                hint_tok, found_error, tokens, lex_pc, lex_result>>
parser_vars == <<parser_tokens, pos, parse_pc, parse_result>>
sym_vars == <<nodes, sem_pc, sem_result>>
vars == <<pre_vars, diagnostics, lexer_vars, parser_vars, sym_vars>>

\* no Parser and no SymbolTable have been constructed
NoParser ==
    /\ parser_tokens = <<>>
    /\ pos = 0
    /\ parse_pc = "idle"
    /\ parse_result = None
NoSymbolTable ==
    /\ nodes = <<>>
    /\ sem_pc = "idle"
    /\ sem_result = None

(* ------------------------- preprocessor calls -------------------------- *)
\* alphabets of the raw texts
PreChars == {"/", "*", "\n", " ", "a", "#", EACUTE, EURO}
CommentChars == {"/", "*", "\n", "a"}

\* Lexer::new of the text s
LexerNew(s) ==
    /\ source_content = s
    /\ current_pos = Span_new(s)
    /\ current_tok = <<>>
    /\ index = 0
    /\ eof = FALSE
    /\ hint_tok = "Undetermined"
    /\ found_error = FALSE
    /\ tokens = <<>>
    /\ lex_result = "None"

\* Preprocessor::new
InitPre ==
    /\ content \in Strings(PreChars, MaxPreLen)
                     \cup Strings(CommentChars, MaxCommentLen)
    /\ pre_status = "Ready"
    /\ trail = <<>>
    /\ diagnostics = <<>>
    /\ LexerNew(<<>>)
    /\ lex_pc = "idle"
    /\ NoParser
    /\ NoSymbolTable

\* a call of a chainable operation: `?` ends the chain on Failed
PreCall(op, r) ==
    /\ pre_status = "Ready"
    /\ Len(trail) < MaxOps
    /\ pre_status' = IF r.status = "Ok" THEN "Ready" ELSE r.status
    /\ content' = IF r.status = "Ok" THEN r.content ELSE content
    /\ trail' = Append(trail, [op |-> op, input |-> content,
                               status |-> r.status, output |-> r.content])
    /\ diagnostics' = diagnostics \o r.diags
    /\ UNCHANGED <<lexer_vars, parser_vars, sym_vars>>

NormalizeToAscii == PreCall("normalize_to_ascii", normalize_to_ascii(content))

RemoveMultilineComment ==
    PreCall("remove_multiline_comment", remove_multiline_comment(content))

RemoveSinglelineComments ==
    PreCall("remove_singleline_comments", remove_singleline_comments(content))

NextPre ==
    \/ NormalizeToAscii
    \/ RemoveMultilineComment
    \/ RemoveSinglelineComments

SpecPre == InitPre /\ [][NextPre]_vars

(* -------------------------------- lexer -------------------------------- *)
\* alphabets of the texts given to Lexer::new
LexChars ==
    {"a", "1", " ", "\n", "_", ".", "-", ">", ":", ";", "[", "!", "=",
     EACUTE, SOH}
IdentChars == {"a", " ", "_", SOH}
NumberChars == {"1", ".", " "}

InitLex ==
    /\ content = <<>>
    /\ pre_status = "Ready"
    /\ trail = <<>>
    /\ diagnostics = <<>>
    /\ \E s \in Strings(LexChars, MaxSrcLen)
                  \cup Strings(IdentChars, MaxIdentSrcLen)
                  \cup Strings(NumberChars, MaxNumberSrcLen) : LexerNew(s)
    /\ lex_pc = "lex"
    /\ NoParser
    /\ NoSymbolTable

\* Lexer::peek, Lexer::peek_previous
peek == CharAt(source_content, index + 1)
peek_previous == CharAt(source_content, saturating_sub(index, 1))
\* the character Lexer::peek_current looks at; it returns None, after
\* reporting unsupported-char, when the character is not ASCII
current_char == CharAt(source_content, index)
peek_current == IF current_char # None /\ ~is_ascii(current_char)
                THEN None ELSE current_char

\* an increment that leaves the index where it is
IndexAfter_Staying(incre) == index
\* Lexer::incre_file_index_by: the index and the flag after it
IndexAfter(incre) ==
    IF index + incre >= ByteLen(source_content)
    THEN ByteLen(source_content) ELSE index + incre
EofAfter(incre) == eof \/ index + incre >= ByteLen(source_content)
incre_file_index_by(incre) ==
    /\ index' = IndexAfter(incre)
    /\ eof' = EofAfter(incre)

\* Lexer::get_span_start_and_end_with_offset at file index i
get_span_start_and_end_with_offset(i, offset) ==
    <<current_pos[saturating_sub(i, offset) + 1],
      current_pos[saturating_sub(i, 1) + 1]>>

\* Token::new with the span of the `offset` characters before file index i
Token(raw, kind, i, offset, reserved) ==
    [raw_content |-> raw, kind |-> kind,
     span_start |-> get_span_start_and_end_with_offset(i, offset)[1],
     span_end |-> get_span_start_and_end_with_offset(i, offset)[2],
     file_index |-> i, reserved |-> reserved]

\* the token consume_num_or_float_lit and the number arm of lex push
NumberToken ==
    Token(current_tok,
          IF \E k \in 1..Len(current_tok) : current_tok[k] = "."
          THEN "FloatLit" ELSE "NumLit",
          index, Len(current_tok), FALSE)
\* the token consume_ident_or_reserved and the ident arm of lex push
IdentToken ==
    Token(current_tok, refined_or_ident(current_tok)[1], index,
          Len(current_tok), refined_or_ident(current_tok)[2])

\* the condition of the while loop of lex
is_empty_file == IsBlank(source_content)
InLoop == lex_pc = "lex" /\ ~eof /\ ~is_empty_file
\* the loop body got its character: peek_current().expect(..) passed
HasChar == InLoop /\ peek_current # None
\* `ch` of the loop body
cur == peek_current

\* the hint after the top of the loop body has looked at cur
HintAtTop ==
    IF IsBlank(current_tok)
    THEN IF is_alphabetic(cur) THEN "IdentOrKeyword"
         ELSE IF is_numeric(cur) THEN "Number" ELSE hint_tok
    ELSE hint_tok

Report(id) == diagnostics' = Append(diagnostics, Diag(id, index))

\* lex panics: peek_current() gave None to expect(), after reporting the
\* character if it is not ASCII
LexPeekCurrentPanic ==
    /\ InLoop
    /\ peek_current = None
    /\ lex_pc' = "panic"
    /\ IF current_char # None
       THEN Report("unsupported-char") /\ found_error' = TRUE
       ELSE UNCHANGED <<diagnostics, found_error>>
    /\ UNCHANGED <<source_content, current_pos, current_tok, index, eof,
                   hint_tok, tokens, lex_result>>
    /\ UNCHANGED <<pre_vars, parser_vars, sym_vars>>

\* lex panics: a digit is the last character and peek().expect(..) fails
LexDigitPeekPanic ==
    /\ HasChar
    /\ is_numeric(cur)
    /\ peek = None
    /\ lex_pc' = "panic"
    /\ hint_tok' = HintAtTop
    /\ UNCHANGED <<source_content, current_pos, current_tok, index, eof,
                   found_error, tokens, lex_result, diagnostics>>
    /\ UNCHANGED <<pre_vars, parser_vars, sym_vars>>

\* a digit directly before a letter: invalid-ident, the digit is skipped
LexInvalidIdent ==
    /\ HasChar
    /\ is_numeric(cur)
    /\ peek # None
    /\ is_alphabetic(peek)
    /\ Report("invalid-ident")
    /\ found_error' = TRUE
    /\ incre_file_index_by(1)
    /\ hint_tok' = HintAtTop
    /\ UNCHANGED <<source_content, current_pos, current_tok, tokens, lex_pc,
                   lex_result>>
    /\ UNCHANGED <<pre_vars, parser_vars, sym_vars>>

\* the digit did not stop the iteration at its first test
DigitPassed == is_numeric(cur) => (peek # None /\ ~is_alphabetic(peek))

\* a digit while a number is built: appended
LexDigit ==
    /\ HasChar
    /\ DigitPassed
    /\ is_numeric(cur)
    /\ HintAtTop = "Number"
    /\ current_tok' = Append(current_tok, cur)
    /\ incre_file_index_by(1)
    /\ hint_tok' = HintAtTop
    /\ UNCHANGED <<source_content, current_pos, found_error, tokens, lex_pc,
                   lex_result, diagnostics>>
    /\ UNCHANGED <<pre_vars, parser_vars, sym_vars>>

\* an underscore outside an identifier, followed by neither a letter nor an
\* underscore: misplaced-underscore, the underscore is skipped
LexMisplacedUnderscore ==
    /\ HasChar
    /\ cur = "_"
    /\ HintAtTop # "IdentOrKeyword"
    /\ peek # None
    /\ ~is_alphabetic(peek)
    /\ peek # "_"
    /\ Report("misplaced-underscore")
    /\ found_error' = TRUE
    /\ incre_file_index_by(1)
    /\ hint_tok' = HintAtTop
    /\ UNCHANGED <<source_content, current_pos, current_tok, tokens, lex_pc,
                   lex_result>>
    /\ UNCHANGED <<pre_vars, parser_vars, sym_vars>>

\* an underscore outside an identifier that starts one: a number being
\* built is pushed first
LexUnderscoreStart ==
    /\ HasChar
    /\ cur = "_"
    /\ HintAtTop # "IdentOrKeyword"
    /\ peek # None => (is_alphabetic(peek) \/ peek = "_")
    /\ IF ~IsBlank(current_tok) /\ HintAtTop = "Number"
       THEN /\ tokens' = Append(tokens, NumberToken)
            /\ current_tok' = <<cur>>
       ELSE /\ tokens' = tokens
            /\ current_tok' = Append(current_tok, cur)
    /\ hint_tok' = "IdentOrKeyword"
    /\ incre_file_index_by(1)
    /\ UNCHANGED <<source_content, current_pos, found_error, lex_pc,
                   lex_result, diagnostics>>
    /\ UNCHANGED <<pre_vars, parser_vars, sym_vars>>

\* whitespace: the token being built is pushed
LexWhitespace ==
    /\ HasChar
    /\ is_whitespace(cur)
    /\ IF ~IsBlank(current_tok) /\ HintAtTop = "IdentOrKeyword"
       THEN /\ tokens' = Append(tokens, IdentToken)
            /\ hint_tok' = "Undetermined"
            /\ current_tok' = <<>>
       ELSE IF ~IsBlank(current_tok) /\ HintAtTop = "Number"
       THEN /\ tokens' = Append(tokens, NumberToken)
            /\ hint_tok' = "Undetermined"
            /\ current_tok' = <<>>
       ELSE /\ tokens' = tokens
            /\ hint_tok' = HintAtTop
            /\ current_tok' = current_tok
    /\ incre_file_index_by(1)
    /\ UNCHANGED <<source_content, current_pos, found_error, lex_pc,
                   lex_result, diagnostics>>
    /\ UNCHANGED <<pre_vars, parser_vars, sym_vars>>

\* cur reaches `if cur.is_ascii_punctuation()`
AtPunctuation ==
    /\ HasChar
    /\ is_ascii_punctuation(cur)
    /\ ~(cur = "_" /\ HintAtTop # "IdentOrKeyword")
was_building_token == ~IsBlank(current_tok)

\* lex panics: a token is being built and the hint is Undetermined
LexHintAssertPanic ==
    /\ AtPunctuation
    /\ was_building_token
    /\ HintAtTop = "Undetermined"
    /\ lex_pc' = "panic"
    /\ UNCHANGED <<source_content, current_pos, current_tok, index, eof,
                   hint_tok, found_error, tokens, lex_result, diagnostics>>
    /\ UNCHANGED <<pre_vars, parser_vars, sym_vars>>

\* an underscore inside an identifier: appended
LexIdentUnderscore ==
    /\ AtPunctuation
    /\ was_building_token
    /\ HintAtTop = "IdentOrKeyword"
    /\ cur = "_"
    /\ current_tok' = Append(current_tok, cur)
    /\ incre_file_index_by(1)
    /\ hint_tok' = HintAtTop
    /\ UNCHANGED <<source_content, current_pos, found_error, tokens, lex_pc,
                   lex_result, diagnostics>>
    /\ UNCHANGED <<pre_vars, parser_vars, sym_vars>>

\* a `.` between two digits while a number is built: appended
FloatDot ==
    /\ cur = "."
    /\ peek_previous # None /\ is_numeric(peek_previous)
    /\ peek # None /\ is_numeric(peek)
LexFloatDot ==
    /\ AtPunctuation
    /\ was_building_token
    /\ HintAtTop = "Number"
    /\ FloatDot
    /\ current_tok' = Append(current_tok, cur)
    /\ incre_file_index_by(1)
    /\ hint_tok' = HintAtTop
    /\ UNCHANGED <<source_content, current_pos, found_error, tokens, lex_pc,
                   lex_result, diagnostics>>
    /\ UNCHANGED <<pre_vars, parser_vars, sym_vars>>

\* cur reaches lex_punctuation, after the token being built was pushed
AtLexPunctuation ==
    /\ AtPunctuation
    /\ was_building_token =>
          CASE HintAtTop = "IdentOrKeyword" -> cur # "_"
            [] HintAtTop = "Number" -> ~FloatDot
            [] OTHER -> FALSE
\* the tokens once the token being built, if any, is pushed
TokensAfterDump ==
    IF was_building_token
    THEN Append(tokens, IF HintAtTop = "IdentOrKeyword" THEN IdentToken
                        ELSE NumberToken)
    ELSE tokens

\* lex panics in lex_punctuation: peek().expect(..) at the last character
LexPunctPeekPanic ==
    /\ AtLexPunctuation
    /\ cur \in PeekExpected
    /\ peek = None
    /\ tokens' = TokensAfterDump
    /\ hint_tok' = IF was_building_token THEN "Undetermined" ELSE HintAtTop
    /\ current_tok' = <<>>
    /\ lex_pc' = "panic"
    /\ UNCHANGED <<source_content, current_pos, index, eof, found_error,
                   lex_result, diagnostics>>
    /\ UNCHANGED <<pre_vars, parser_vars, sym_vars>>

PunctResult == lex_punctuation(cur, peek_previous, peek)

\* lex_punctuation returned a token of one or two characters
LexPunctToken ==
    /\ AtLexPunctuation
    /\ cur \in PeekExpected => peek # None
    /\ PunctResult.tok
    /\ tokens' = Append(TokensAfterDump,
                        Token(PunctResult.raw, PunctResult.kind,
                              IndexAfter(Len(PunctResult.raw)),
                              Len(PunctResult.raw), FALSE))
    /\ incre_file_index_by(Len(PunctResult.raw))
    /\ current_tok' = <<>>
    /\ hint_tok' = "Undetermined"
    /\ UNCHANGED <<source_content, current_pos, found_error, lex_pc,
                   lex_result, diagnostics>>
    /\ UNCHANGED <<pre_vars, parser_vars, sym_vars>>

\* lex_punctuation reported an error and returned None: the character is
\* skipped
LexPunctError ==
    /\ AtLexPunctuation
    /\ cur \in PeekExpected => peek # None
    /\ ~PunctResult.tok
    /\ Report(PunctResult.id)
    /\ found_error' = TRUE
    /\ tokens' = TokensAfterDump
    /\ hint_tok' = "Undetermined"
    /\ current_tok' = <<>>
    /\ incre_file_index_by(1)
    /\ UNCHANGED <<source_content, current_pos, lex_pc, lex_result>>
    /\ UNCHANGED <<pre_vars, parser_vars, sym_vars>>

\* any other character is appended to the token being built
LexBuild ==
    /\ HasChar
    /\ DigitPassed
    /\ ~(is_numeric(cur) /\ HintAtTop = "Number")
    /\ cur # "_"
    /\ ~is_whitespace(cur)
    /\ ~is_ascii_punctuation(cur)
    /\ incre_file_index_by(1)
    /\ current_tok' = Append(current_tok, cur)
    /\ hint_tok' = HintAtTop
    /\ UNCHANGED <<source_content, current_pos, found_error, tokens, lex_pc,
                   lex_result, diagnostics>>
    /\ UNCHANGED <<pre_vars, parser_vars, sym_vars>>

\* the loop is over: lex returns the tokens, or LexError::Failed
LexReturn ==
    /\ lex_pc = "lex"
    /\ eof \/ is_empty_file
    /\ lex_result' = IF found_error THEN "Err" ELSE "Ok"
    /\ lex_pc' = "done"
    /\ UNCHANGED <<source_content, current_pos, current_tok, index, eof,
                   hint_tok, found_error, tokens, diagnostics>>
    /\ UNCHANGED <<pre_vars, parser_vars, sym_vars>>

NextLex ==
    \/ LexPeekCurrentPanic
    \/ LexDigitPeekPanic
    \/ LexInvalidIdent
    \/ LexDigit
    \/ LexMisplacedUnderscore
    \/ LexUnderscoreStart
    \/ LexWhitespace
    \/ LexHintAssertPanic
    \/ LexIdentUnderscore
    \/ LexFloatDot
    \/ LexPunctPeekPanic
    \/ LexPunctToken
    \/ LexPunctError
    \/ LexBuild
    \/ LexReturn

SpecLex == InitLex /\ [][NextLex]_vars
\* lex runs on one thread from its first iteration to its return: a step
\* that can be taken is taken
SpecLexRuns == InitLex /\ [][NextLex]_vars /\ WF_vars(NextLex)

(* ------------------- claims about the preprocessor --------------------- *)
\* the calls of operation op recorded in the trail
CallsOf(op) == {i \in 1..Len(trail) : trail[i].op = op}

\* what the comment-stripping claims call a comment: a multi-line comment
\* opens at k when `/*` stands there and closes with the first `*/` that
\* starts at or after k + 2
OpensAt(s, k) == k < Len(s) /\ s[k] = "/" /\ s[k + 1] = "*"
ClosersAfter(s, k) ==
    {j \in (k + 2)..(Len(s) - 1) : s[j] = "*" /\ s[j + 1] = "/"}
FirstCloser(s, k) ==
    CHOOSE j \in ClosersAfter(s, k) : \A i \in ClosersAfter(s, k) : j <= i
BlankOf(ch) == IF is_whitespace(ch) THEN ch ELSE " "

\* the text the claims expect of remove_multiline_comment, from position k on
RECURSIVE BlankedMultiFrom(_, _)
BlankedMultiFrom(s, k) ==
    IF k > Len(s) THEN <<>>
    ELSE IF OpensAt(s, k) /\ ClosersAfter(s, k) # {}
    THEN [i \in 1..(FirstCloser(s, k) + 2 - k) |-> BlankOf(s[k + i - 1])]
            \o BlankedMultiFrom(s, FirstCloser(s, k) + 2)
    ELSE <<s[k]>> \o BlankedMultiFrom(s, k + 1)

\* the 1-based position of the first `/*` that no `*/` closes, 0 if none
RECURSIVE UnterminatedFrom(_, _)
UnterminatedFrom(s, k) ==
    IF k > Len(s) THEN 0
    ELSE IF OpensAt(s, k)
    THEN IF ClosersAfter(s, k) = {} THEN k
         ELSE UnterminatedFrom(s, FirstCloser(s, k) + 2)
    ELSE UnterminatedFrom(s, k + 1)

\* the text the claims expect of remove_singleline_comments, from position
\* k on: in_comment says that a `//` is open
RECURSIVE BlankedSingleFrom(_, _, _)
BlankedSingleFrom(s, k, in_comment) ==
    IF k > Len(s) THEN <<>>
    ELSE IF s[k] = "\n" THEN <<"\n">> \o BlankedSingleFrom(s, k + 1, FALSE)
    ELSE IF in_comment \/ (k < Len(s) /\ s[k] = "/" /\ s[k + 1] = "/")
    THEN <<" ">> \o BlankedSingleFrom(s, k + 1, TRUE)
    ELSE <<s[k]>> \o BlankedSingleFrom(s, k + 1, FALSE)

\* C2: whenever remove_multiline_comment succeeds its output is as long as
\* its input: inside every /*...*/ region, delimiters included, whitespace
\* stays where it is and any other character becomes a space, and every
\* character outside the regions keeps its offset
C2_MultilinePreservesOffsets ==
    \A i \in CallsOf("remove_multiline_comment") :
        trail[i].status = "Ok" =>
            /\ Len(trail[i].output) = Len(trail[i].input)
            /\ trail[i].output = BlankedMultiFrom(trail[i].input, 1)

\* C3: remove_singleline_comments turns every character from a `//` up to
\* the next newline into a space and keeps the newline, so its output is as
\* long as its input and the characters outside the comment keep their
\* offsets
C3_SinglelinePreservesOffsets ==
    \A i \in CallsOf("remove_singleline_comments") :
        trail[i].status = "Ok" =>
            /\ Len(trail[i].output) = Len(trail[i].input)
            /\ trail[i].output = BlankedSingleFrom(trail[i].input, 1, FALSE)

\* C4: whenever the input holds a `/*` with no matching `*/` after it,
\* remove_multiline_comment reports missing-terminator at the offset just
\* past the opening (2 for `/* missing`) and returns Failed, whatever
\* characters follow the opening
C4_UnterminatedCommentFails ==
    \A i \in CallsOf("remove_multiline_comment") :
        UnterminatedFrom(trail[i].input, 1) # 0 =>
            /\ trail[i].status = "Failed"
            /\ \E d \in 1..Len(diagnostics) :
                  diagnostics[d] =
                      Diag("missing-terminator",
                           UnterminatedFrom(trail[i].input, 1) + 1)

\* C5: comment stripping is idempotent: when remove_multiline_comment and
\* then remove_singleline_comments have succeeded, the same two operations
\* applied to the result succeed and return it unchanged
C5_StrippingIdempotent ==
    \A i \in CallsOf("remove_multiline_comment") :
        ( /\ i + 2 <= Len(trail)
          /\ trail[i].status = "Ok"
          /\ trail[i + 1].op = "remove_singleline_comments"
          /\ trail[i + 1].status = "Ok"
          /\ trail[i + 2].op = "remove_multiline_comment" )
        => /\ trail[i + 2].status = "Ok"
           /\ trail[i + 2].output = trail[i + 1].output
           /\ ( /\ i + 3 <= Len(trail)
                /\ trail[i + 3].op = "remove_singleline_comments" )
              => /\ trail[i + 3].status = "Ok"
                 /\ trail[i + 3].output = trail[i + 1].output

\* the characters the specification lets through normalize-to-ASCII
SevenBitAccepted(ch) ==
    /\ is_ascii(ch)
    /\ \/ ch \in AsciiLetters \cup AsciiDigits \cup AsciiWhitespace
       \/ ch \in VALID_PUNC
Rejected(s) == {k \in 1..Len(s) : ~SevenBitAccepted(s[k])}

\* C6: normalize_to_ascii succeeds only when every character is a 7-bit
\* ASCII letter, digit, whitespace character or accepted punctuation mark;
\* otherwise it reports bad-character at the offset of the first other
\* character and returns Failed; on success the content is unchanged
C6_NormalizeAcceptsOnlyAscii ==
    \A i \in CallsOf("normalize_to_ascii") :
        LET s == trail[i].input
        IN  IF Rejected(s) = {}
            THEN trail[i].status = "Ok" /\ trail[i].output = s
            ELSE /\ trail[i].status = "Failed"
                 /\ \E d \in 1..Len(diagnostics) :
                       diagnostics[d] =
                           Diag("bad-character",
                                (CHOOSE k \in Rejected(s) :
                                    \A j \in Rejected(s) : k <= j) - 1)

\* C25: every call of remove_singleline_comments returns, also on a text
\* whose last line is a `//` comment with no newline after it.
C25_SinglelineCommentsTerminates ==
    \A i \in CallsOf("remove_singleline_comments") :
        trail[i].status # "Hang"

(* ---------------------- claims about the lexer ------------------------- *)
IsAsciiText(s) == \A k \in 1..Len(s) : is_ascii(s[k])
\* the 1-based positions of the newlines before position k of s
NewlinesBefore(s, k) == {j \in 1..(k - 1) : s[j] = "\n"}
LineOf(s, k) == 1 + Cardinality(NewlinesBefore(s, k))
ColumnOf(s, k) ==
    IF NewlinesBefore(s, k) = {} THEN k
    ELSE k - (CHOOSE j \in NewlinesBefore(s, k) :
                 \A i \in NewlinesBefore(s, k) : i <= j)

\* C7: for a non-empty ASCII source Span::new builds one SpanPoint per
\* character, and the point at offset k holds the 1-based line and column of
\* the k-th character: the line is one more than the newlines before it, the
\* column its distance from the last newline before it
C7_SpanPointPerCharacter ==
    (lex_pc # "idle" /\ source_content # <<>> /\ IsAsciiText(source_content))
    => /\ Len(current_pos) = Len(source_content)
       /\ \A k \in 1..Len(source_content) :
             current_pos[k] = SpanPoint(LineOf(source_content, k),
                                        ColumnOf(source_content, k),
                                        source_content[k])

\* a source with a newline in it and two characters on its second line
C7_Witness ==
    /\ lex_pc # "idle"
    /\ IsAsciiText(source_content)
    /\ Len(source_content) >= 3
    /\ source_content[Len(source_content) - 2] = "\n"
    /\ source_content[Len(source_content) - 1] # "\n"
    /\ current_pos[Len(source_content)].line_num >= 2
    /\ current_pos[Len(source_content)].col_num = 2

LexReturnedOk == lex_pc = "done" /\ lex_result = "Ok"

\* C1: whenever lex returns Ok, the token sequence has at least one token and
\* its last token is the EOF sentinel, also for an empty or blank source
C1_TokensEndWithEof ==
    LexReturnedOk =>
        /\ Len(tokens) >= 1
        /\ tokens[Len(tokens)].kind = "EOF"

\* the offset of a SpanPoint of the source: its place in the Span
OffsetOf(point) ==
    CHOOSE k \in 0..(Len(current_pos) - 1) : current_pos[k + 1] = point

\* C8: every token returned by a successful lex has start offset <= end
\* offset, end - start + 1 equal to the length of its raw content, and the
\* source characters from start to end are its raw content
C8_TokenSpanMatchesContent ==
    LexReturnedOk =>
        \A t \in 1..Len(tokens) :
            LET start == OffsetOf(tokens[t].span_start)
                end == OffsetOf(tokens[t].span_end)
            IN  /\ start <= end
                /\ end - start + 1 = Len(tokens[t].raw_content)
                /\ SubSeq(source_content, start + 1, end + 1)
                      = tokens[t].raw_content

\* C9: the error flag stays set once an error was reported; after a report
\* the lexer goes on to the end of the input, and lex returns failure if and
\* only if a lexical diagnostic was printed during the scan
C9_ErrorsReportedThenFailure ==
    /\ diagnostics # <<>> => found_error
    /\ diagnostics # <<>> => lex_pc # "panic"
    /\ lex_pc = "done" => (lex_result = "Err" <=> diagnostics # <<>>)

\* C10: on a source made only of characters normalize-to-ASCII lets through
\* (7-bit letters, digits, whitespace, accepted punctuation) lex never
\* panics: it ends by returning the tokens or LexError::Failed
C10_LexNeverPanics ==
    (\A k \in 1..Len(source_content) : SevenBitAccepted(source_content[k]))
    => lex_pc # "panic"

\* the characters of the source the lexer has gone past
Scanned == {k \in 0..(Len(source_content) - 1) : k < index}
\* a token of the given content and kind was pushed for the characters that
\* start at offset k
PushedAt(k, raw, kind) ==
    \E t \in 1..Len(tokens) :
        /\ tokens[t].raw_content = raw
        /\ tokens[t].kind = kind
        /\ tokens[t].file_index = k + Len(raw)
ReportedAt(k) == \E d \in 1..Len(diagnostics) : diagnostics[d].offset = k
\* the token kind the single punctuation characters are said to have
SinglePunctuation ==
    {"+", "*", "/", ";", "(", ")", "{", "}", ",", "[", "]", "!"}
SinglePunctuationKind(c) ==
    CASE c = "+" -> "Plus" [] c = "*" -> "Mul" [] c = "/" -> "Div"
      [] c = ";" -> "Semicolon" [] c = "(" -> "LParn" [] c = ")" -> "RParn"
      [] c = "{" -> "LBracket" [] c = "}" -> "RBracket" [] c = "," -> "Sep"
      [] c = "[" -> "LSBracket" [] c = "]" -> "RSBracket" [] c = "!" -> "Not"

\* C11: each of the characters + * / ; ( ) { } , [ ] ! the lexer has gone
\* past was lexed to a token of its own kind (a `!` before `=` to one NEq
\* token with the `=`) and no lexical error was reported at it
C11_SinglePunctuationLexed ==
    \A k \in Scanned :
        source_content[k + 1] \in SinglePunctuation =>
            /\ ~ReportedAt(k)
            /\ IF source_content[k + 1] = "!"
                  /\ CharAt(source_content, k + 1) = "="
               THEN PushedAt(k, <<"!", "=">>, "NEq")
               ELSE PushedAt(k, <<source_content[k + 1]>>,
                             SinglePunctuationKind(source_content[k + 1]))

\* offset k of the source holds a digit and offset k + 1 a letter
DigitBeforeLetter(k) ==
    /\ CharAt(source_content, k) \in AsciiDigits
    /\ CharAt(source_content, k + 1) \in AsciiLetters \cup NonAsciiLetters
\* the lexer stands on a digit that a letter follows, and its step reports
\* invalid-ident there and skips the digit
C12_Step ==
    (lex_pc = "lex" /\ ~eof /\ DigitBeforeLetter(index)) =>
        /\ diagnostics' = Append(diagnostics, Diag("invalid-ident", index))
        /\ found_error'
        /\ index' = index + 1
        /\ current_tok' = current_tok
        /\ tokens' = tokens
C12_Outcome ==
    (\E k \in Scanned : DigitBeforeLetter(k)) =>
        /\ found_error
        /\ lex_pc # "panic"
        /\ lex_pc = "done" => lex_result = "Err"

\* C12: at a digit that a letter follows directly the lexer reports
\* invalid-ident at the digit's offset, sets the error flag and skips the
\* digit; it then scans the rest of the source and lex returns failure
C12_InvalidIdentThenFailure == [][C12_Step]_vars /\ []C12_Outcome

\* offset k holds an underscore that neither a letter nor an underscore
\* follows
LoneUnderscore(k) ==
    /\ CharAt(source_content, k) = "_"
    /\ CharAt(source_content, k + 1)
          \notin AsciiLetters \cup NonAsciiLetters \cup {"_"}

\* C13: every underscore the lexer has gone past that is followed by neither
\* a letter nor an underscore was reported as misplaced-underscore, whatever
\* was being built when it was met, and lex then returns failure
C13_MisplacedUnderscoreReported ==
    \A k \in Scanned :
        LoneUnderscore(k) =>
            /\ \E d \in 1..Len(diagnostics) :
                  diagnostics[d] = Diag("misplaced-underscore", k)
            /\ found_error
            /\ lex_pc = "done" => lex_result = "Err"

\* the character is a letter or an underscore; a digit
LetterOrUnderscore(c) == c \in AsciiLetters \cup NonAsciiLetters \cup {"_"}
Digit(c) == c \in AsciiDigits
\* the characters on the two sides of the one the lexer stands on
Before == IF index = 0 THEN None ELSE CharAt(source_content, index - 1)
After == CharAt(source_content, index + 1)
\* what the step of the lexer did with the `.` it stood on
DotAsToken(raw, kind) ==
    /\ Len(tokens') >= 1
    /\ tokens'[Len(tokens')].raw_content = raw
    /\ tokens'[Len(tokens')].kind = kind
    /\ index' = index + Len(raw)
    /\ diagnostics' = diagnostics
    /\ found_error' = found_error
DotInNumber ==
    /\ current_tok' = Append(current_tok, ".")
    /\ tokens' = tokens
    /\ index' = index + 1
    /\ diagnostics' = diagnostics
    /\ found_error' = found_error
DotAsError ==
    /\ diagnostics' = Append(diagnostics, Diag("invalid-float", index))
    /\ found_error'
    /\ index' = index + 1
    /\ current_tok' = <<>>
    /\ \A t \in 1..Len(tokens') : tokens'[t].file_index <= index
C14_Step ==
    (lex_pc = "lex" /\ ~eof /\ CharAt(source_content, index) = ".") =>
        IF LetterOrUnderscore(Before) /\ LetterOrUnderscore(After)
        THEN DotAsToken(<<".">>, "RecordDot")
        ELSE IF After = "."
        THEN DotAsToken(<<".", ".">>, "ExRange")
        ELSE IF /\ ~IsBlank(current_tok) /\ hint_tok = "Number"
                /\ Digit(Before) /\ Digit(After)
        THEN DotInNumber
        ELSE DotAsError

\* C14: the step the lexer takes at a `.` does exactly one of four things:
\* pushes a RecordDot token when letters or underscores stand on both sides;
\* pushes one ExRange token for the `.` and the `.` right after it; appends
\* the `.` to the number being built when digits stand on both sides; and
\* otherwise reports invalid-float, sets the error flag and skips the `.`
C14_DotClassified == [][C14_Step]_vars

\* an iteration of the loop of lex that is followed by another one
C26_Step ==
    (lex_pc = "lex" /\ lex_pc' = "lex")
    => /\ \/ Len(tokens') > Len(tokens)
          \/ index' > index
          \/ (eof' /\ ~eof)
       /\ index' >= index

\* C26: every iteration of the loop of lex emits a token, advances the index
\* by at least 1 or sets the EOF flag, the index never decreases, and on
\* every source lex leaves its loop
C26_LexProgressesAndTerminates ==
    /\ [][C26_Step]_vars
    /\ [][index' >= index]_vars
    /\ <>(lex_pc # "lex")

\* lex has returned after iterations that emitted tokens, one that only
\* advanced the index (whitespace) and one that set the EOF flag
C26_Witness ==
    /\ lex_pc = "done"
    /\ Len(tokens) >= 2
    /\ \E i \in 1..Len(source_content) : source_content[i] = " "
    /\ eof
    /\ index = ByteLen(source_content)

\* the characters identifier, keyword and number runs are made of; a `.`
\* with a digit on both sides stays inside its number run
RunChar(c) == is_alphanumeric(c) \/ c = "_"
InRun(s, k) ==
    \/ RunChar(s[k])
    \/ /\ s[k] = "."
       /\ 1 < k /\ k < Len(s)
       /\ is_numeric(s[k - 1]) /\ is_numeric(s[k + 1])
\* the positions at which a maximal run of s starts
RunStarts(s) ==
    {k \in 1..Len(s) : InRun(s, k) /\ (k = 1 \/ ~InRun(s, k - 1))}
\* the tokens of toks made from a run: identifiers, keywords, literals
RunTokens(toks) ==
    {i \in 1..Len(toks) : RunChar(toks[i].raw_content[1])}

\* C27: when lex returns Ok the token sequence holds exactly one token for
\* every identifier, keyword or number run of the source, the run that ends
\* at the last character of the source included
C27_EveryRunYieldsOneToken ==
    LexReturnedOk =>
        Cardinality(RunTokens(tokens)) = Cardinality(RunStarts(source_content))

\* raw is digits, one `.`, digits
IsFloatRaw(raw) ==
    /\ Cardinality({k \in 1..Len(raw) : raw[k] = "."}) = 1
    /\ \A k \in 1..Len(raw) : is_numeric(raw[k]) \/ raw[k] = "."
    /\ is_numeric(raw[1])
    /\ is_numeric(raw[Len(raw)])

\* C29: every FloatLit token of a lex that returned Ok has a raw content
\* made of digits, exactly one `.`, and digits: a run with two dots such as
\* `1.5.2` is never one token
C29_FloatLitHasOneDot ==
    LexReturnedOk =>
        \A i \in 1..Len(tokens) :
            tokens[i].kind = "FloatLit" => IsFloatRaw(tokens[i].raw_content)

(* -------------------------------- parser ------------------------------- *)
\* a Token as the parser reads it, and the i-th token of a stream of
\* <<kind, raw content>> pairs: its file index grows along the stream
Tok(kind, raw, i) == [kind |-> kind, raw_content |-> raw, file_index |-> i]
TokenStream(pairs) ==
    [i \in 1..Len(pairs) |-> Tok(pairs[i][1], pairs[i][2], i - 1)]

\* ast::Expression: an S-expression
Atom(tok) == [atom |-> TRUE, tok |-> tok, rest |-> <<>>]
Cons(tok, rest) == [atom |-> FALSE, tok |-> tok, rest |-> rest]

\* what a parsing function gives back: "Ok" with a value, "Err" for
\* ParserError::ParseFail, "Panic"; with the position and the reports after it
R(res, val, p, d) == [res |-> res, val |-> val, pos |-> p, diags |-> d]

\* `let x = v;`: what follows, Then, with the value v under its name
Bind(v, Then(_)) == Then(v)
\* `let x = r?;`: a result that is not Ok is returned at once, and what
\* follows runs with an Ok one
Try(r, Then(_)) == IF r.res # "Ok" THEN r ELSE Then(r)

\* Parser::at_end_of_token_stream at position p: peek().unwrap() panics there
at_end_of_token_stream(p) == p >= Len(parser_tokens)

\* Parser::try_consume, Parser::try_peek
try_consume(valid_tokens, p, d) ==
    IF at_end_of_token_stream(p) THEN R("Panic", None, p, d)
    ELSE IF parser_tokens[p + 1].kind \notin valid_tokens
    THEN R("Err", None, p,
           Append(d, Diag("unexpected-token",
                          parser_tokens[p + 1].file_index)))
    ELSE R("Ok", parser_tokens[p + 1], p + 1, d)
try_peek(valid_tokens, p, d) ==
    IF at_end_of_token_stream(p) THEN R("Panic", None, p, d)
    ELSE IF parser_tokens[p + 1].kind \notin valid_tokens
    THEN R("Err", None, p,
           Append(d, Diag("unexpected-token",
                          parser_tokens[p + 1].file_index)))
    ELSE R("Ok", parser_tokens[p + 1], p, d)

\* a prefix minus that binds like the infix minus
get_prefix_bind_power_AsInfixMinus(op) == CASE op.kind = "Minus" -> 8
\* Parser::get_prefix_bind_power: the right binding power
get_prefix_bind_power(op) == CASE op.kind = "Minus" -> 13

\* a table whose pairs are turned round, and one whose rows of + - and * /
\* are exchanged
get_infix_bind_power_RightToLeft(op) ==
    CASE op.kind = "OrKw" -> <<2, 1>>
      [] op.kind = "AndKw" -> <<4, 3>>
      [] op.kind \in {"Eq", "Lt", "Lte", "Gt", "Gte"} -> <<6, 5>>
      [] op.kind \in {"Plus", "Minus"} -> <<8, 7>>
      [] op.kind \in {"Mul", "Div"} -> <<10, 9>>
      [] op.kind = "AsKw" -> <<12, 11>>
get_infix_bind_power_RowsExchanged(op) ==
    CASE op.kind = "OrKw" -> <<1, 2>>
      [] op.kind = "AndKw" -> <<3, 4>>
      [] op.kind \in {"Eq", "Lt", "Lte", "Gt", "Gte"} -> <<5, 6>>
      [] op.kind \in {"Plus", "Minus"} -> <<9, 10>>
      [] op.kind \in {"Mul", "Div"} -> <<7, 8>>
      [] op.kind = "AsKw" -> <<11, 12>>
\* Parser::get_infix_bind_power: <<left, right>> binding power
get_infix_bind_power(op) ==
    CASE op.kind = "OrKw" -> <<1, 2>>
      [] op.kind = "AndKw" -> <<3, 4>>
      [] op.kind = "Eq" -> <<5, 6>>
      [] op.kind = "Lt" -> <<5, 6>>
      [] op.kind = "Lte" -> <<5, 6>>
      [] op.kind = "Gt" -> <<5, 6>>
      [] op.kind = "Gte" -> <<5, 6>>
      [] op.kind = "Plus" -> <<7, 8>>
      [] op.kind = "Minus" -> <<7, 8>>
      [] op.kind = "Mul" -> <<9, 10>>
      [] op.kind = "Div" -> <<9, 10>>
      [] op.kind = "AsKw" -> <<11, 12>>
\* Parser::get_postfix_bind_power: <<left>> binding power, or <<>> for None
get_postfix_bind_power(op) ==
    IF op.kind = "LSBracket" THEN <<15>> ELSE <<>>

\* the token kinds parse_expression accepts at the start of an expression
\* and after an operand
ExprStartKinds ==
    {"Minus", "Ident", "FloatTy", "IntTy", "BoolTy", "TextTy", "BoolLit",
     "NumLit", "FloatLit", "RBracket", "Semicolon", "LParn"}
InfixOpKinds ==
    {"Plus", "Minus", "Div", "Mul", "Lt", "Lte", "Gt", "Gte", "Eq", "OrKw",
     "AndKw", "AsKw"}
ExprPuncKinds ==
    {"LSBracket", "RSBracket", "RParn", "LBracket", "RBracket", "Semicolon"}
AsTypeKinds == {"IntTy", "Ident", "FloatTy", "BoolTy", "TextTy"}

\* Parser::parse_expression from position p with the reports d: the value
\* is <<>> for None and <<expression>> for Some
RECURSIVE parse_expression(_, _, _)
RECURSIVE ExpressionLoop(_, _, _, _)
parse_expression(minimum_bp, p, d) ==
    Try(try_consume(ExprStartKinds, p, d), LAMBDA c :
    IF c.val.kind \in {"RBracket", "Semicolon"}
    THEN R("Ok", <<>>, saturating_sub(c.pos, 1), c.diags)
    ELSE IF c.val.kind = "LParn"
    THEN Try(parse_expression(0, c.pos, c.diags), LAMBDA lhs :
         Try(try_consume({"RParn"}, lhs.pos, lhs.diags), LAMBDA r_parn :
         IF lhs.val = <<>>
         THEN R("Panic", None, r_parn.pos, r_parn.diags)
         ELSE ExpressionLoop(lhs.val[1], minimum_bp, r_parn.pos,
                             r_parn.diags)))
    ELSE IF c.val.kind = "Minus"
    THEN Try(parse_expression(get_prefix_bind_power(c.val), c.pos, c.diags),
             LAMBDA rhs :
         IF rhs.val = <<>> THEN R("Panic", None, rhs.pos, rhs.diags)
         ELSE ExpressionLoop(Cons(c.val, <<rhs.val[1]>>), minimum_bp,
                             rhs.pos, rhs.diags))
    ELSE ExpressionLoop(Atom(c.val), minimum_bp, c.pos, c.diags))
\* the `loop` of parse_expression with the left operand lhs
ExpressionLoop(lhs, minimum_bp, p, d) ==
    Try(try_peek(InfixOpKinds \cup ExprPuncKinds, p, d), LAMBDA pk :
    Bind(pk.val, LAMBDA op :
    IF op.kind \in {"EOF", "Semicolon", "RSBracket", "RParn", "LBracket",
                    "RBracket"}
    THEN R("Ok", <<lhs>>, p, d)
    ELSE IF get_postfix_bind_power(op) # <<>>
    THEN IF get_postfix_bind_power(op)[1] < minimum_bp
         THEN R("Ok", <<lhs>>, p, d)
         ELSE Try(parse_expression(0, p + 1, d), LAMBDA rhs :
              IF rhs.val = <<>>
              THEN R("Panic", None, rhs.pos, rhs.diags)
              ELSE Try(try_consume({"RSBracket"}, rhs.pos, rhs.diags),
                       LAMBDA rs :
                   ExpressionLoop(Cons(op, <<lhs, rhs.val[1]>>), minimum_bp,
                                  rs.pos, rs.diags)))
    ELSE IF get_infix_bind_power(op)[1] < minimum_bp
    THEN R("Ok", <<lhs>>, p, d)
    ELSE Try(IF op.kind = "AsKw" THEN try_peek(AsTypeKinds, p + 1, d)
             ELSE R("Ok", None, p + 1, d), LAMBDA ty :
         Try(parse_expression(get_infix_bind_power(op)[2], p + 1, ty.diags),
             LAMBDA rhs :
         IF rhs.val = <<>>
         THEN R("Panic", None, rhs.pos, rhs.diags)
         ELSE ExpressionLoop(Cons(op, <<lhs, rhs.val[1]>>), minimum_bp,
                             rhs.pos, rhs.diags)))))

\* Parser::optional_consume, optional_peek, optional_peek_next: the value is
\* <<>> for None and <<token>> for Some
optional_consume(valid_tokens, p, d) ==
    IF at_end_of_token_stream(p) THEN R("Panic", None, p, d)
    ELSE IF parser_tokens[p + 1].kind \notin valid_tokens
    THEN R("Ok", <<>>, p, d)
    ELSE R("Ok", <<parser_tokens[p + 1]>>, p + 1, d)
optional_peek(valid_tokens, p, d) ==
    IF at_end_of_token_stream(p) THEN R("Panic", None, p, d)
    ELSE IF parser_tokens[p + 1].kind \notin valid_tokens
    THEN R("Ok", <<>>, p, d)
    ELSE R("Ok", <<parser_tokens[p + 1]>>, p, d)
optional_peek_next(valid_tokens, p, d) ==
    IF at_end_of_token_stream(p + 1) THEN R("Panic", None, p, d)
    ELSE IF parser_tokens[p + 2].kind \notin valid_tokens
    THEN R("Ok", <<>>, p, d)
    ELSE R("Ok", <<parser_tokens[p + 2]>>, p, d)

\* Parser::try_consume2_or_none: the value is the second token, <<>> or
\* <<token>>
try_consume2_or_none(valid_tokens1, valid_tokens2, p, d) ==
    Try(optional_consume(valid_tokens1, p, d), LAMBDA token1 :
    Try(optional_consume(valid_tokens2, token1.pos, d), LAMBDA token2 :
    IF token1.val = <<>> /\ token2.val = <<>>
    THEN R("Ok", <<>>, token2.pos, d)
    ELSE IF token1.val # <<>> /\ token2.val = <<>>
    THEN R("Err", None, token2.pos,
           Append(d, Diag("missing-ty", token1.val[1].file_index)))
    ELSE IF token1.val = <<>> /\ token2.val # <<>>
    THEN R("Err", None, token2.pos,
           Append(d, Diag("unexpected-token", token2.val[1].file_index)))
    ELSE R("Ok", token2.val, token2.pos, d)))

\* Parser::try_consume_ty
TypeKinds == {"IntTy", "FloatTy", "BoolTy", "TextTy"}
try_consume_ty(p, d) == try_consume(TypeKinds, p, d)

\* the `while` of Parser::optional_consume_list with the tokens taken so far
RECURSIVE ConsumeListLoop(_, _, _, _)
ConsumeListLoop(valid_tokens, consumed_toks, p, d) ==
    IF at_end_of_token_stream(p) THEN R("Panic", None, p, d)
    ELSE IF parser_tokens[p + 1].kind = "Sep"
    THEN ConsumeListLoop(valid_tokens, consumed_toks, p + 1, d)
    ELSE IF parser_tokens[p + 1].kind \in valid_tokens
    THEN ConsumeListLoop(valid_tokens,
                         Append(consumed_toks, parser_tokens[p + 1]),
                         p + 1, d)
    ELSE R("Ok", <<consumed_toks>>, p, d)
\* Parser::optional_consume_list: <<>> for None, <<tokens>> for Some
optional_consume_list(valid_tokens, p, d) ==
    IF at_end_of_token_stream(p) THEN R("Panic", None, p, d)
    ELSE IF parser_tokens[p + 1].kind \notin valid_tokens
    THEN R("Ok", <<>>, p, d)
    ELSE ConsumeListLoop(valid_tokens, <<>>, p, d)

\* the `while` of Parser::try_optional_consume_list_with_seps
RECURSIVE ListWithSepsLoop(_, _, _, _, _)
ListWithSepsLoop(valid_tokens, consumed_toks, expected_sep, p, d) ==
    IF at_end_of_token_stream(p) THEN R("Panic", None, p, d)
    ELSE LET curr_tok == parser_tokens[p + 1] IN
    IF ~(curr_tok.kind \in valid_tokens \/ curr_tok.kind = "Sep")
    THEN R("Ok", <<consumed_toks>>, p, d)
    ELSE IF curr_tok.kind = "Sep" /\ expected_sep
    THEN ListWithSepsLoop(valid_tokens, consumed_toks, FALSE, p + 1, d)
    ELSE ListWithSepsLoop(
             valid_tokens, Append(consumed_toks, curr_tok), TRUE, p + 1,
             IF expected_sep
             THEN Append(d, Diag("missing-sep", curr_tok.file_index))
             ELSE IF curr_tok.kind = "Sep"
             THEN Append(d, Diag("unexpected-token", curr_tok.file_index))
             ELSE d)
\* Parser::try_optional_consume_list_with_seps
try_optional_consume_list_with_seps(valid_tokens, p, d) ==
    IF at_end_of_token_stream(p) THEN R("Panic", None, p, d)
    ELSE IF parser_tokens[p + 1].kind \notin valid_tokens
    THEN R("Ok", <<>>, p, d)
    ELSE ListWithSepsLoop(valid_tokens, <<>>, FALSE, p, d)

\* Parser::try_optional_consume_typed_ident: <<>> or <<<<ident, type>>>>
try_optional_consume_typed_ident(p, d) ==
    Try(optional_peek({"Ident"}, p, d), LAMBDA curr_tok :
    IF curr_tok.val = <<>> THEN R("Ok", <<>>, p, d)
    ELSE Try(try_consume({"TQualifer"}, p + 1, d), LAMBDA t_qualifier :
         Try(try_consume_ty(t_qualifier.pos, t_qualifier.diags),
             LAMBDA explicit_ty :
         R("Ok", <<<<curr_tok.val[1], explicit_ty.val>>>>, explicit_ty.pos,
           explicit_ty.diags))))

\* Parser::try_optional_consume_typed_list_with_seps with the fields taken
\* so far
RECURSIVE TypedListLoop(_, _, _)
TypedListLoop(consumed_ty_idents, p, d) ==
    Try(try_optional_consume_typed_ident(p, d), LAMBDA field :
    IF field.val = <<>>
    THEN IF consumed_ty_idents = <<>> THEN R("Ok", <<>>, field.pos, d)
         ELSE R("Ok", <<consumed_ty_idents>>, field.pos, d)
    ELSE Try(try_peek({"Sep", "RBracket"}, field.pos, field.diags),
             LAMBDA curr_tok :
         IF curr_tok.val.kind = "Sep"
         THEN TypedListLoop(Append(consumed_ty_idents, field.val[1]),
                            curr_tok.pos + 1, curr_tok.diags)
         ELSE R("Ok", <<Append(consumed_ty_idents, field.val[1])>>,
                curr_tok.pos, curr_tok.diags)))
try_optional_consume_typed_list_with_seps(p, d) == TypedListLoop(<<>>, p, d)

\* the token kinds a statement starts with
StatementStartKinds ==
    {"IfKw", "WhileKw", "ForKw", "LetKw", "StructKw", "ChoiceKw", "Ident"}
TypeHintKinds == {"Ident", "IntTy", "FloatTy", "TextTy", "BoolTy"}

RECURSIVE parse_block(_, _)
RECURSIVE parse_statements(_, _)
RECURSIVE StatementsLoop(_, _, _)
RECURSIVE parse_definite_loop(_, _)
RECURSIVE parse_indefinite_loop(_, _)
RECURSIVE parse_selection(_, _)
RECURSIVE CondBlock(_, _, _, _)
RECURSIVE parse_elif_comp(_, _)
RECURSIVE parse_else_comp(_, _)

\* Parser::parse_var_binding_init
parse_var_binding_init(p, d) ==
    Try(try_consume({"LetKw"}, p, d), LAMBDA let_kw :
    Try(try_consume({"Ident"}, let_kw.pos, let_kw.diags),
        LAMBDA var_bind_name :
    Try(try_consume2_or_none({"TQualifer"}, TypeHintKinds,
                             var_bind_name.pos, var_bind_name.diags),
        LAMBDA ty_hint :
    Try(try_consume({"Assign"}, ty_hint.pos, ty_hint.diags),
        LAMBDA assign_op :
    Try(parse_expression(0, assign_op.pos, assign_op.diags), LAMBDA rhs :
    IF rhs.val = <<>> THEN R("Panic", None, rhs.pos, rhs.diags)
    ELSE Try(try_consume({"Semicolon"}, rhs.pos, rhs.diags),
             LAMBDA semicolon :
         R("Ok", [node |-> "VarBindingInit", bind_name |-> var_bind_name.val,
                  ty_hint |-> ty_hint.val, rhs |-> rhs.val[1]],
           semicolon.pos, semicolon.diags)))))))

\* Parser::parse_var_binding_mutation
parse_var_binding_mutation(p, d) ==
    Try(try_consume({"Ident"}, p, d), LAMBDA var_bind_name :
    Try(try_consume({"Assign"}, var_bind_name.pos, var_bind_name.diags),
        LAMBDA assign_op :
    Try(parse_expression(0, assign_op.pos, assign_op.diags), LAMBDA rhs :
    IF rhs.val = <<>>
    THEN R("Err", None, rhs.pos,
           Append(rhs.diags, Diag("var-bind-missing-rhs",
                                  var_bind_name.val.file_index)))
    ELSE Try(try_consume({"Semicolon"}, rhs.pos, rhs.diags),
             LAMBDA semicolon :
         R("Ok", [node |-> "VarBindingMut", bind_name |-> var_bind_name.val,
                  expr |-> rhs.val[1]],
           semicolon.pos, semicolon.diags)))))

\* Parser::parse_block
parse_block(p, d) ==
    Try(try_consume({"LBracket"}, p, d), LAMBDA block_open :
    Try(parse_statements(block_open.pos, block_open.diags),
        LAMBDA statements :
    Try(parse_expression(0, statements.pos, statements.diags),
        LAMBDA expression :
    Try(try_consume({"RBracket"}, expression.pos, expression.diags),
        LAMBDA block_close :
    R("Ok", [node |-> "Block", statements |-> statements.val,
             expression |-> expression.val],
      block_close.pos, block_close.diags)))))

\* Parser::parse_statements: <<>> for None, <<statements>> for Some
parse_statements(p, d) == StatementsLoop(<<>>, p, d)
\* the `loop` of parse_statements with the statements parsed so far
StatementsLoop(statements, p, d) ==
    LET Stop == IF statements = <<>> THEN R("Ok", <<>>, p, d)
                ELSE R("Ok", <<statements>>, p, d)
    IN
    Try(optional_peek(StatementStartKinds, p, d), LAMBDA curr_token :
    IF curr_token.val = <<>> THEN Stop
    ELSE Bind(curr_token.val[1].kind, LAMBDA kind :
    IF kind \in {"StructKw", "ChoiceKw"} THEN Stop
    ELSE Bind(optional_peek_next({"Assign"}, p, d), LAMBDA next_tok :
    IF kind = "Ident" /\ next_tok.res # "Ok" THEN next_tok
    ELSE IF kind = "Ident" /\ next_tok.val = <<>> THEN Stop
    ELSE Try(CASE kind = "LetKw" -> parse_var_binding_init(p, d)
               [] kind = "IfKw" -> parse_selection(p, d)
               [] kind = "WhileKw" -> parse_indefinite_loop(p, d)
               [] kind = "ForKw" -> parse_definite_loop(p, d)
               [] OTHER -> parse_var_binding_mutation(p, d),
             LAMBDA statement :
         StatementsLoop(Append(statements, statement.val), statement.pos,
                        statement.diags)))))

\* Parser::parse_definite_loop
parse_definite_loop(p, d) ==
    Try(try_consume({"ForKw"}, p, d), LAMBDA for_kw :
    Try(try_consume({"Ident"}, for_kw.pos, for_kw.diags), LAMBDA for_index :
    Try(try_consume({"InKw"}, for_index.pos, for_index.diags),
        LAMBDA in_kw :
    Try(try_consume({"NumLit"}, in_kw.pos, in_kw.diags),
        LAMBDA for_low_bound :
    Try(try_consume({"ExRange"}, for_low_bound.pos, for_low_bound.diags),
        LAMBDA for_range :
    Try(try_consume({"NumLit"}, for_range.pos, for_range.diags),
        LAMBDA for_high_bound :
    Try(parse_block(for_high_bound.pos, for_high_bound.diags),
        LAMBDA for_block :
    R("Ok", [node |-> "DefiniteLoop", index_name |-> for_index.val,
             low_bound |-> for_low_bound.val,
             high_bound |-> for_high_bound.val,
             block |-> for_block.val],
      for_block.pos, for_block.diags))))))))

\* a keyword, a condition and a block: the body shared by
\* parse_indefinite_loop, parse_if_comp and parse_elif_comp
CondBlock(keyword, node, p, d) ==
    Try(try_consume({keyword}, p, d), LAMBDA kw :
    Try(parse_expression(0, kw.pos, kw.diags), LAMBDA expr :
    IF expr.val = <<>>
    THEN R("Err", None, expr.pos,
           Append(expr.diags, Diag("missing-expr", kw.val.file_index)))
    ELSE Try(parse_block(expr.pos, expr.diags), LAMBDA block :
         R("Ok", [node |-> node, expr |-> expr.val[1], block |-> block.val],
           block.pos, block.diags))))
\* Parser::parse_indefinite_loop, Parser::parse_if_comp
parse_indefinite_loop(p, d) == CondBlock("WhileKw", "IndefiniteLoop", p, d)
parse_if_comp(p, d) == CondBlock("IfKw", "IfComp", p, d)
\* Parser::parse_elif_comp, Parser::parse_else_comp: <<>> for None
parse_elif_comp(p, d) ==
    Try(optional_peek({"ElifKw"}, p, d), LAMBDA elif_kw :
    IF elif_kw.val = <<>> THEN R("Ok", <<>>, p, d)
    ELSE Try(CondBlock("ElifKw", "ElifComp", p, d), LAMBDA elif_comp :
         R("Ok", <<elif_comp.val>>, elif_comp.pos, elif_comp.diags)))
parse_else_comp(p, d) ==
    Try(optional_peek({"ElseKw"}, p, d), LAMBDA else_peek :
    IF else_peek.val = <<>> THEN R("Ok", <<>>, p, d)
    ELSE Try(try_consume({"ElseKw"}, p, d), LAMBDA else_kw :
         Try(parse_block(else_kw.pos, else_kw.diags), LAMBDA else_block :
         R("Ok", <<[node |-> "ElseComp", block |-> else_block.val]>>,
           else_block.pos, else_block.diags))))
\* Parser::parse_selection
parse_selection(p, d) ==
    Try(parse_if_comp(p, d), LAMBDA if_comp :
    Try(parse_elif_comp(if_comp.pos, if_comp.diags), LAMBDA elif_comp :
    Try(parse_else_comp(elif_comp.pos, elif_comp.diags), LAMBDA else_comp :
    R("Ok", [node |-> "Selection", if_comp |-> if_comp.val,
             elif_comp |-> elif_comp.val, else_comp |-> else_comp.val],
      else_comp.pos, else_comp.diags))))

\* Parser::parse_choice_declaration
parse_choice_declaration(p, d) ==
    Try(try_consume({"Ident"}, p, d), LAMBDA choice_name :
    Try(try_consume({"TQualifer"}, choice_name.pos, choice_name.diags),
        LAMBDA t_qualifier :
    Try(try_consume({"ChoiceKw"}, t_qualifier.pos, t_qualifier.diags),
        LAMBDA choice_kw :
    Try(try_consume({"LBracket"}, choice_kw.pos, choice_kw.diags),
        LAMBDA l_bracket :
    Try(try_optional_consume_list_with_seps({"Ident"}, l_bracket.pos,
                                            l_bracket.diags),
        LAMBDA choice_variants :
    Try(try_consume({"RBracket"}, choice_variants.pos,
                    choice_variants.diags),
        LAMBDA r_bracket :
    R("Ok", [node |-> "Choice", name |-> choice_name.val,
             variants |-> choice_variants.val],
      r_bracket.pos, r_bracket.diags)))))))

\* Parser::parse_struct_declaration
parse_struct_declaration(p, d) ==
    Try(try_consume({"Ident"}, p, d), LAMBDA struct_name :
    Try(try_consume({"TQualifer"}, struct_name.pos, struct_name.diags),
        LAMBDA t_qualifier :
    Try(try_consume({"StructKw"}, t_qualifier.pos, t_qualifier.diags),
        LAMBDA struct_kw :
    Try(try_consume({"LBracket"}, struct_kw.pos, struct_kw.diags),
        LAMBDA l_bracket :
    Try(try_optional_consume_typed_list_with_seps(l_bracket.pos,
                                                  l_bracket.diags),
        LAMBDA struct_fields :
    Try(try_consume({"RBracket"}, struct_fields.pos, struct_fields.diags),
        LAMBDA r_bracket :
    R("Ok", [node |-> "Struct", name |-> struct_name.val,
             typed_fields |-> struct_fields.val],
      r_bracket.pos, r_bracket.diags)))))))

\* Parser::parse_function_signature
parse_function_signature(p, d) ==
    Try(try_consume({"Ident", "MainKw"}, p, d), LAMBDA func_name :
    Try(try_consume({"TQualifer"}, func_name.pos, func_name.diags),
        LAMBDA t_qualifier :
    Try(try_consume({"LParn"}, t_qualifier.pos, t_qualifier.diags),
        LAMBDA l_parn :
    Try(optional_consume_list(TypeKinds, l_parn.pos, l_parn.diags),
        LAMBDA func_input_tys :
    Try(try_consume({"RParn"}, func_input_tys.pos, func_input_tys.diags),
        LAMBDA r_parn :
    Try(try_consume2_or_none({"RetArrow"}, TypeKinds, r_parn.pos,
                             r_parn.diags),
        LAMBDA ret_ty :
    R("Ok", [node |-> "FuncSignature", func_name |-> func_name.val,
             ty_list |-> func_input_tys.val, ty_ret |-> ret_ty.val],
      ret_ty.pos, ret_ty.diags)))))))

\* Parser::parse_function_definition
parse_function_definition(p, d) ==
    Try(try_consume({"Ident", "MainKw"}, p, d), LAMBDA func_name :
    Try(optional_consume_list({"Ident"}, func_name.pos, func_name.diags),
        LAMBDA func_params :
    Try(try_consume({"FnDef"}, func_params.pos, func_params.diags),
        LAMBDA func_def_op :
    Try(parse_block(func_def_op.pos, func_def_op.diags), LAMBDA block :
    R("Ok", [node |-> "FuncDefinition", func_name |-> func_name.val,
             arg_list |-> func_params.val, block |-> block.val],
      block.pos, block.diags)))))

\* Parser::parse_function_declaration
parse_function_declaration(p, d) ==
    Try(parse_function_signature(p, d), LAMBDA function_signature :
    Try(parse_function_definition(function_signature.pos,
                                  function_signature.diags),
        LAMBDA function_definition :
    R("Ok", [node |-> "Function", signature |-> function_signature.val,
             definition |-> function_definition.val],
      function_definition.pos, function_definition.diags)))

\* one turn of the `loop` of Parser::parse_declarations with the
\* declarations parsed so far: "Continue" with one more declaration, or what
\* the function returns, <<>> for None and <<declarations>> for Some
DeclarationsIteration(declarations, p, d) ==
    Bind(try_consume({"Ident", "MainKw", "EOF"}, p, d), LAMBDA curr_token :
    IF curr_token.res = "Panic" THEN curr_token
    ELSE IF curr_token.res = "Err" /\ declarations = <<>>
    THEN R("Ok", <<>>, curr_token.pos, curr_token.diags)
    ELSE IF curr_token.res = "Err"
    THEN R("Panic", None, curr_token.pos, curr_token.diags)
    ELSE IF curr_token.val.kind = "EOF"
    THEN R("Ok", <<declarations>>, curr_token.pos, curr_token.diags)
    ELSE Try(try_consume({"TQualifer"}, curr_token.pos, curr_token.diags),
             LAMBDA t_qualifier :
         Try(try_consume({"StructKw", "ChoiceKw", "LParn"}, t_qualifier.pos,
                         t_qualifier.diags),
             LAMBDA decl_tok :
         Bind(saturating_sub(decl_tok.pos, 3), LAMBDA start :
         Try(IF decl_tok.val.kind = "StructKw"
             THEN parse_struct_declaration(start, decl_tok.diags)
             ELSE IF decl_tok.val.kind = "ChoiceKw"
             THEN parse_choice_declaration(start, decl_tok.diags)
             ELSE parse_function_declaration(start, decl_tok.diags),
             LAMBDA declaration :
         R("Continue", Append(declarations, declaration.val),
           declaration.pos, declaration.diags))))))
\* the `loop` of Parser::parse_declarations
RECURSIVE DeclarationsLoop(_, _, _)
DeclarationsLoop(declarations, p, d) ==
    Bind(DeclarationsIteration(declarations, p, d), LAMBDA turn :
    IF turn.res = "Continue"
    THEN DeclarationsLoop(turn.val, turn.pos, turn.diags)
    ELSE turn)
\* Parser::parse_declarations
parse_declarations(p, d) == DeclarationsLoop(<<>>, p, d)

\* Parser::parse: the Program, or ParseFail
parse(p, d) ==
    Try(parse_declarations(p, d), LAMBDA declarations :
    R("Ok", [node |-> "Program", declarations |-> declarations.val],
      declarations.pos, declarations.diags))

(* --------------------------- parser calls ------------------------------ *)
\* <<kind, raw content>> of a token with a fixed spelling, of an
\* identifier and of a number
K(kind) == <<kind, kind>>
Id(name) == <<"Ident", name>>
Num(n) == <<"NumLit", n>>

\* token streams `a op1 b op2 c T` and `- a op b T`: T ends the expression
\* or is EOF
ExprEndKinds == {"Semicolon", "RBracket", "RParn", "EOF"}
ExprStreams ==
    {<<Id("a"), K(op1), b, K(op2), Id("c"), K(t)>> :
        op1 \in InfixOpKinds, op2 \in InfixOpKinds,
        b \in {Id("b"), Num("1")}, t \in ExprEndKinds}
    \cup {<<K("Minus"), Id("a"), K(op), b, K(t)>> :
            op \in InfixOpKinds, b \in {Id("b"), Num("1")},
            t \in ExprEndKinds}

\* the declarations of a program, and stray tokens
ChoiceDecl ==
    <<Id("c"), K("TQualifer"), K("ChoiceKw"), K("LBracket"), Id("v"),
      K("RBracket")>>
StructDecl ==
    <<Id("s"), K("TQualifer"), K("StructKw"), K("LBracket"), Id("f"),
      K("TQualifer"), K("IntTy"), K("RBracket")>>
MainDecl ==
    <<K("MainKw"), K("TQualifer"), K("LParn"), K("RParn"), K("MainKw"),
      K("FnDef"), K("LBracket"), K("LetKw"), Id("x"), K("Assign"), Num("1"),
      K("Semicolon"), Id("x"), K("RBracket")>>
FuncDecl ==
    <<Id("f"), K("TQualifer"), K("LParn"), K("IntTy"), K("RParn"),
      K("RetArrow"), K("IntTy"), Id("f"), Id("a"), K("FnDef"),
      K("LBracket"),
      K("LetKw"), Id("x"), K("TQualifer"), K("IntTy"), K("Assign"),
      Num("1"), K("Semicolon"),
      Id("x"), K("Assign"), Id("x"), K("Plus"), Id("a"), K("Semicolon"),
      K("WhileKw"), Id("x"), K("Lt"), Num("2"), K("LBracket"), Id("x"),
      K("RBracket"),
      K("IfKw"), Id("x"), K("LBracket"), Id("x"), K("RBracket"),
      K("ElifKw"), Id("a"), K("LBracket"), Id("a"), K("RBracket"),
      K("ElseKw"), K("LBracket"), Id("x"), K("RBracket"),
      K("ForKw"), Id("i"), K("InKw"), Num("1"), K("ExRange"), Num("2"),
      K("LBracket"), Id("i"), K("RBracket"),
      Id("x"), K("RBracket")>>
Fragments ==
    {ChoiceDecl, StructDecl, MainDecl, <<K("EOF")>>, <<K("Semicolon")>>,
     <<Id("c")>>}
RECURSIVE FragmentStreams(_)
FragmentStreams(n) ==
    IF n = 0 THEN {<<>>}
    ELSE FragmentStreams(n - 1)
         \cup {s \o f : s \in FragmentStreams(n - 1), f \in Fragments}
\* a whole program, and the program with one of its tokens left out
WholeProgram == ChoiceDecl \o StructDecl \o FuncDecl \o <<K("EOF")>>
WithoutToken(s, i) == SubSeq(s, 1, i - 1) \o SubSeq(s, i + 1, Len(s))
ProgramStreams ==
    {WholeProgram}
    \cup {WithoutToken(WholeProgram, i) : i \in 1..Len(WholeProgram)}
\* `main` with a variable binding as the first statement of its body, with
\* and without a right-hand side
BindingStatements ==
    {<<K("LetKw"), Id("x")>>,
     <<K("LetKw"), Id("x"), K("TQualifer"), K("IntTy")>>,
     <<Id("x")>>}
BindingStreams ==
    {<<K("MainKw"), K("TQualifer"), K("LParn"), K("RParn"), K("MainKw"),
       K("FnDef"), K("LBracket")>>
     \o b \o <<K("Assign")>> \o rhs
     \o <<K("Semicolon"), Id("x"), K("RBracket"), K("EOF")>> :
        b \in BindingStatements, rhs \in {<<>>, <<Num("1")>>}}
\* a choice declaration whose list is any row of variants and commas: well
\* formed, with a comma missing, with a comma too many
VariantLists == Strings({Id("v"), K("Sep")}, MaxVariantTokens)
ChoiceListStreams ==
    {<<Id("c"), K("TQualifer"), K("ChoiceKw"), K("LBracket")>> \o l
     \o <<K("RBracket"), K("EOF")>> : l \in VariantLists}
\* an operand, or `a + 1`, followed by each token the loop of
\* parse_expression has an arm that breaks for
StopKinds ==
    {"Semicolon", "RParn", "RSBracket", "LBracket", "RBracket", "EOF"}
StopStreams ==
    {<<Id("a"), K(t)>> : t \in StopKinds}
    \cup {<<Id("a"), K("Plus"), Num("1"), K(t)>> : t \in StopKinds}

\* Parser::new on a token stream
InitParse ==
    /\ content = <<>>
    /\ pre_status = "Ready"
    /\ trail = <<>>
    /\ diagnostics = <<>>
    /\ LexerNew(<<>>)
    /\ lex_pc = "idle"
    /\ \E s \in ExprStreams \cup FragmentStreams(MaxFragments)
                  \cup ProgramStreams \cup BindingStreams \cup StopStreams
                  \cup ChoiceListStreams :
          parser_tokens = TokenStream(s)
    /\ pos = 0
    /\ parse_pc = "ready"
    /\ parse_result = None
    /\ NoSymbolTable

\* a call on the Parser that gave r
ParserCall(call, r) ==
    /\ parse_pc = "ready"
    /\ parse_pc' = "done"
    /\ parse_result' = [call |-> call, res |-> r.res, val |-> r.val]
    /\ pos' = r.pos
    /\ diagnostics' = r.diags
    /\ UNCHANGED <<parser_tokens, pre_vars, lexer_vars, sym_vars>>

\* Parser::parse on the token stream
Parse == ParserCall("parse", parse(pos, diagnostics))
\* Parser::parse_expression(0) on the token stream
ParseExpression ==
    ParserCall("parse_expression", parse_expression(0, pos, diagnostics))

NextParse ==
    \/ Parse
    \/ ParseExpression

SpecParse == InitParse /\ [][NextParse]_vars

(* ---------------------- claims about the parser ------------------------ *)
\* the rows of the binding-power table, lowest first:
\* or < and < == < <= > >= < + - < * / < as
PrecedenceRow(kind) ==
    CASE kind = "OrKw" -> 1
      [] kind = "AndKw" -> 2
      [] kind \in {"Eq", "Lt", "Lte", "Gt", "Gte"} -> 3
      [] kind \in {"Plus", "Minus"} -> 4
      [] kind \in {"Mul", "Div"} -> 5
      [] kind = "AsKw" -> 6
InfixOperators ==
    {"OrKw", "AndKw", "Eq", "Lt", "Lte", "Gt", "Gte", "Plus", "Minus", "Mul",
     "Div", "AsKw"}
\* tokens that end an expression
ExpressionEnd == {"Semicolon", "RBracket", "RParn"}
\* token i of the stream is an atom that may stand to the right of token
\* i - 1: an identifier or a number, and a type or identifier after `as`
AtomAt(i) ==
    /\ parser_tokens[i].kind \in {"Ident", "NumLit"}
    /\ (i > 1 /\ parser_tokens[i - 1].kind = "AsKw")
          => parser_tokens[i].kind = "Ident"
\* parse_expression(0) was called on the stream `a op1 b op2 c T`
ParsedThreeOperands ==
    /\ parse_pc = "done"
    /\ parse_result.call = "parse_expression"
    /\ Len(parser_tokens) = 6
    /\ AtomAt(1) /\ AtomAt(3) /\ AtomAt(5)
    /\ parser_tokens[2].kind \in InfixOperators
    /\ parser_tokens[4].kind \in InfixOperators
    /\ parser_tokens[6].kind \in ExpressionEnd
\* the two ways of grouping `a op1 b op2 c`
GroupedLeft ==
    Cons(parser_tokens[4],
         <<Cons(parser_tokens[2],
                <<Atom(parser_tokens[1]), Atom(parser_tokens[3])>>),
           Atom(parser_tokens[5])>>)
GroupedRight ==
    Cons(parser_tokens[2],
         <<Atom(parser_tokens[1]),
           Cons(parser_tokens[4],
                <<Atom(parser_tokens[3]), Atom(parser_tokens[5])>>)>>)

\* C15: infix operators of one row of the table associate to the left:
\* `a op1 b op2 c` before a token that ends the expression parses as
\* Cons(op2, [Cons(op1, [a, b]), c]), and the parser stops at that token
C15_LeftAssociative ==
    (ParsedThreeOperands
     /\ PrecedenceRow(parser_tokens[2].kind)
           = PrecedenceRow(parser_tokens[4].kind))
    => /\ parse_result.res = "Ok"
       /\ parse_result.val = <<GroupedLeft>>
       /\ pos = 5
\* `a - b - c ;` was parsed
C15_Witness ==
    /\ ParsedThreeOperands
    /\ parser_tokens[2].kind = "Minus"
    /\ parser_tokens[4].kind = "Minus"
    /\ parse_result.val = <<GroupedLeft>>

\* C16: an operator of a higher row binds tighter: with op2 in a higher row
\* than op1, `a op1 b op2 c` parses as Cons(op1, [a, Cons(op2, [b, c])]),
\* and with op1 in a higher row than op2 as Cons(op2, [Cons(op1, [a, b]), c])
C16_PrecedenceRespected ==
    ParsedThreeOperands
    => /\ PrecedenceRow(parser_tokens[2].kind)
             < PrecedenceRow(parser_tokens[4].kind)
          => /\ parse_result.res = "Ok"
             /\ parse_result.val = <<GroupedRight>>
             /\ pos = 5
       /\ PrecedenceRow(parser_tokens[2].kind)
             > PrecedenceRow(parser_tokens[4].kind)
          => /\ parse_result.res = "Ok"
             /\ parse_result.val = <<GroupedLeft>>
             /\ pos = 5
\* `a + b * c ;` was parsed
C16_Witness ==
    /\ ParsedThreeOperands
    /\ parser_tokens[2].kind = "Plus"
    /\ parser_tokens[4].kind = "Mul"
    /\ parse_result.val = <<GroupedRight>>

\* parse_expression(0) was called on the stream `- a op b T`
ParsedNegatedOperand ==
    /\ parse_pc = "done"
    /\ parse_result.call = "parse_expression"
    /\ Len(parser_tokens) = 5
    /\ parser_tokens[1].kind = "Minus"
    /\ AtomAt(2) /\ AtomAt(4)
    /\ parser_tokens[3].kind \in InfixOperators
    /\ parser_tokens[5].kind \in ExpressionEnd

\* C17: a prefix minus binds tighter than every infix operator: `- a op b`
\* parses as Cons(op, [Cons('-', [a]), b])
C17_PrefixMinusBindsTightest ==
    ParsedNegatedOperand
    => /\ parse_result.res = "Ok"
       /\ parse_result.val =
             <<Cons(parser_tokens[3],
                    <<Cons(parser_tokens[1], <<Atom(parser_tokens[2])>>),
                      Atom(parser_tokens[4])>>)>>
       /\ pos = 4
\* `- a * b ;` was parsed
C17_Witness ==
    /\ ParsedNegatedOperand
    /\ parser_tokens[3].kind = "Mul"
    /\ parse_result.res = "Ok"

\* a consume failed during the call: unexpected-token was reported
ConsumeFailed ==
    \E i \in 1..Len(diagnostics) : diagnostics[i].id = "unexpected-token"

\* C18: parse never panics; when a consume failed it returned ParseFail and
\* no Program, also when the unexpected token stands where a declaration
\* should start; and it returns ParseFail only after printing a diagnostic
C18_FailedConsumeIsParseFail ==
    (parse_pc = "done" /\ parse_result.call = "parse")
    => /\ parse_result.res # "Panic"
       /\ ConsumeFailed => parse_result.res = "Err"
       /\ parse_result.res = "Err" => diagnostics # <<>>

\* a variable binding whose name is the n-th token and whose `<-`, the
\* a-th token, is directly followed by `;`: the `let` form, with or without
\* a type hint, and the mutation form at the start of a statement
MissingRhs(n, a) ==
    /\ parser_tokens[n].kind = "Ident"
    /\ parser_tokens[a].kind = "Assign"
    /\ parser_tokens[a + 1].kind = "Semicolon"
    /\ \/ /\ parser_tokens[n - 1].kind = "LetKw"
          /\ \/ a = n + 1
             \/ /\ a = n + 3
                /\ parser_tokens[n + 1].kind = "TQualifer"
                /\ parser_tokens[n + 2].kind \in TypeHintKinds
       \/ /\ parser_tokens[n - 1].kind \in {"LBracket", "Semicolon"}
          /\ a = n + 1
\* parse got as far as the `;` after that `<-`
MissingRhsReached(n, a) ==
    /\ parse_pc = "done"
    /\ parse_result.call = "parse"
    /\ pos >= a

\* C23: a variable binding whose `<-` is directly followed by `;` gives
\* var-bind-missing-rhs anchored at the name of the binding and ParseFail,
\* in the `let` form and in the mutation form.
C23_MissingRhsReported ==
    \A n \in 2..Len(parser_tokens), a \in 3..(Len(parser_tokens) - 1) :
        n < a /\ MissingRhs(n, a) /\ MissingRhsReached(n, a)
        => /\ parse_result.res = "Err"
           /\ \E k \in 1..Len(diagnostics) :
                 diagnostics[k] = Diag("var-bind-missing-rhs",
                                       parser_tokens[n].file_index)

\* parse_expression(0) was called on operands with infix operators between
\* them and one stop token after the last operand
ParsedUpToStop ==
    /\ parse_pc = "done"
    /\ parse_result.call = "parse_expression"
    /\ Len(parser_tokens) \in {2, 4}
    /\ \A i \in 1..(Len(parser_tokens) - 1) :
          IF i % 2 = 1 THEN AtomAt(i)
          ELSE parser_tokens[i].kind \in InfixOperators \ {"AsKw"}
    /\ parser_tokens[Len(parser_tokens)].kind \in StopKinds
\* the left-hand side built from the tokens before the stop token
LhsBeforeStop ==
    IF Len(parser_tokens) = 2 THEN Atom(parser_tokens[1])
    ELSE Cons(parser_tokens[2],
              <<Atom(parser_tokens[1]), Atom(parser_tokens[3])>>)

\* C28: when the token after the operands is `;`, `)`, `]`, `{`, `}` or EOF,
\* parse_expression returns Ok with the left-hand side built so far and
\* leaves the position in front of that token
C28_StopsAtStopToken ==
    ParsedUpToStop =>
        /\ parse_result.res = "Ok"
        /\ parse_result.val = <<LhsBeforeStop>>
        /\ pos = Len(parser_tokens) - 1

\* the tokens stored as variants of the Choice declarations of program
ChoiceVariants(program) ==
    IF program.declarations = <<>> THEN {}
    ELSE UNION {IF declaration.variants = <<>> THEN {}
                ELSE {declaration.variants[1][k] :
                         k \in 1..Len(declaration.variants[1])} :
                declaration \in
                    {program.declarations[1][i] :
                        i \in {j \in 1..Len(program.declarations[1]) :
                                  program.declarations[1][j].node = "Choice"}}}

\* C30: when parse returns Ok, every token stored in the variants of a
\* Choice declaration of the Program has kind Ident, also when the list
\* has a missing or an extra comma
C30_VariantsAreIdents ==
    (parse_pc = "done" /\ parse_result.call = "parse"
     /\ parse_result.res = "Ok")
    => \A tok \in ChoiceVariants(parse_result.val) : tok.kind = "Ident"

(* ---------------------------- symbol table ----------------------------- *)
\* SymbolNode::determine_sym_kind
determine_sym_kind(sym_ty) ==
    CASE sym_ty = "Prim" -> "PrimVar"
      [] sym_ty = "Struct" -> "StructVar"
      [] sym_ty = "Choice" -> "ChoiceVar"
      [] sym_ty = "Func" -> "FuncCall"
      [] sym_ty = "List" -> "ListVar"
      [] sym_ty = "Undetermined" -> "PrimVar"
\* SymbolNode::new
SymbolNode_new(sym_name, sym_ty, sym_scope_depth, sym_scope_breath) ==
    [sym_name |-> sym_name, sym_ty |-> sym_ty,
     sym_kind |-> determine_sym_kind(sym_ty),
     sym_scope_depth |-> sym_scope_depth,
     sym_scope_breath |-> sym_scope_breath]

\* SymbolNode::refine_sym_kind_to
refine_sym_kind_to(self, sym_kind) == [self EXCEPT !.sym_kind = sym_kind]

\* a push that puts the node in front of the others
SymbolTable_push_AtFront(self, node) == <<node>> \o self
\* SymbolTable::push
SymbolTable_push(self, node) == Append(self, node)

\* the names and types of the symbols pushed
SymbolNames == {"f", "g"}
SymbolTypes == {"Func", "Choice", "Struct", "Prim"}

\* SymbolTable::new
InitSym ==
    /\ content = <<>>
    /\ pre_status = "Ready"
    /\ trail = <<>>
    /\ diagnostics = <<>>
    /\ LexerNew(<<>>)
    /\ lex_pc = "idle"
    /\ NoParser
    /\ nodes = <<>>
    /\ sem_pc = "open"
    /\ sem_result = None

\* SymbolTable::push of a node whose name token stands after those of the
\* nodes pushed before
Push ==
    /\ sem_pc = "open"
    /\ Len(nodes) < MaxNodes
    /\ \E name \in SymbolNames, sym_ty \in SymbolTypes :
          nodes' = SymbolTable_push(
                       nodes, SymbolNode_new(Tok("Ident", name, Len(nodes)),
                                             sym_ty, 0, 0))
    /\ UNCHANGED <<sem_pc, sem_result, diagnostics, pre_vars, lexer_vars,
                   parser_vars>>

\* the nodes the passes iterate over: `.filter(|sn| sn.sym_ty == ...)`
FilteredNodes_AnyType(sym_ty) == nodes
FilteredNodes(sym_ty) == SelectSeq(nodes, LAMBDA sn : sn.sym_ty = sym_ty)
\* the token the report of a duplicate is anchored at
DupAnchor_NextNode(curr_node, next_node) == next_node.sym_name
DupAnchor(curr_node, next_node) == curr_node.sym_name
\* the inner `for` of a pass from jdx on: the first next_node with the name
\* of the node at idx and another index, or 0
RECURSIVE DupInnerLoop(_, _, _)
DupInnerLoop(filtered, idx, jdx) ==
    IF jdx > Len(filtered) THEN 0
    ELSE IF /\ filtered[idx].sym_name.raw_content
                  = filtered[jdx].sym_name.raw_content
            /\ idx # jdx
    THEN jdx
    ELSE DupInnerLoop(filtered, idx, jdx + 1)
\* the outer `for` of a pass from idx on: one report and SemanticFail at
\* the first duplicate found, Ok at the end
RECURSIVE DupOuterLoop(_, _, _)
DupOuterLoop(filtered, id, idx) ==
    IF idx > Len(filtered) THEN [res |-> "Ok", diags |-> <<>>]
    ELSE IF DupInnerLoop(filtered, idx, 1) # 0
    THEN [res |-> "Err",
          diags |-> <<Diag(id,
                           DupAnchor(filtered[idx],
                                     filtered[DupInnerLoop(filtered, idx, 1)]
                                    ).file_index)>>]
    ELSE DupOuterLoop(filtered, id, idx + 1)

\* check_for_dup_funcs_syms, check_for_dup_choice_syms,
\* check_for_dup_structs_syms
check_for_dup_funcs_syms ==
    DupOuterLoop(FilteredNodes("Func"), "dup-function-def", 1)
check_for_dup_choice_syms ==
    DupOuterLoop(FilteredNodes("Choice"), "dup-choice-def", 1)
check_for_dup_structs_syms ==
    DupOuterLoop(FilteredNodes("Struct"), "dup-structure-def", 1)

\* a pass over the table that gave r
SemanticPass(sym_ty, r) ==
    /\ sem_pc = "open"
    /\ sem_pc' = "done"
    /\ sem_result' = [pass |-> sym_ty, res |-> r.res]
    /\ diagnostics' = diagnostics \o r.diags
    /\ UNCHANGED <<nodes, pre_vars, lexer_vars, parser_vars>>
CheckForDupFuncs == SemanticPass("Func", check_for_dup_funcs_syms)
CheckForDupChoices == SemanticPass("Choice", check_for_dup_choice_syms)
CheckForDupStructs == SemanticPass("Struct", check_for_dup_structs_syms)

NextSym ==
    \/ Push
    \/ CheckForDupFuncs
    \/ CheckForDupChoices
    \/ CheckForDupStructs

SpecSym == InitSym /\ [][NextSym]_vars

(* ------------------- claims about the symbol table --------------------- *)
\* the places in the table of the nodes of a type that share their name
\* with another node of that type
Offenders(sym_ty) ==
    {i \in 1..Len(nodes) :
        /\ nodes[i].sym_ty = sym_ty
        /\ \E j \in 1..Len(nodes) :
              /\ j # i
              /\ nodes[j].sym_ty = sym_ty
              /\ nodes[j].sym_name.raw_content
                    = nodes[i].sym_name.raw_content}
FirstOffender(sym_ty) ==
    CHOOSE i \in Offenders(sym_ty) : \A j \in Offenders(sym_ty) : i <= j
PassMade == sem_pc = "done"

\* C19: a duplicate-symbol pass returns SemanticFail exactly when two
\* distinct nodes of its type have name tokens of equal raw content; nodes
\* of other types never count
C19_DuplicateIffSameFamilyName ==
    PassMade =>
        (sem_result.res = "Err" <=> Offenders(sem_result.pass) # {})
\* a pass succeeded although a node of another type repeats a name of a
\* node of the pass's type, and a pass failed
C19_Witness ==
    /\ PassMade
    /\ sem_result.res = "Err"
    /\ \E i, j \in 1..Len(nodes) :
          /\ nodes[i].sym_ty = sem_result.pass
          /\ nodes[j].sym_ty # sem_result.pass
          /\ nodes[j].sym_name.raw_content = nodes[i].sym_name.raw_content

\* C20: a failing pass prints exactly one diagnostic, anchored at the name
\* token of the earliest node of the table that shares its name with
\* another node of the pass's type
C20_OneDiagnosticAtFirstOffender ==
    (PassMade /\ sem_result.res = "Err") =>
        /\ Len(diagnostics) = 1
        /\ Offenders(sem_result.pass) # {}
        /\ diagnostics[1].offset =
              nodes[FirstOffender(sem_result.pass)].sym_name.file_index
\* a pass failed on a table whose first node of the type is no offender
C20_Witness ==
    /\ PassMade
    /\ sem_result.res = "Err"
    /\ Len(diagnostics) = 1
    /\ \E i \in 1..Len(nodes) :
          /\ nodes[i].sym_ty = sem_result.pass
          /\ i < FirstOffender(sem_result.pass)


(* ----------------------- symbol-table emission ------------------------- *)
\* the type of the node of a variable binding, from its type hint (<<>> or
\* <<token>>)
BindingType(ty_hint) ==
    IF ty_hint # <<>> /\ ty_hint[1].kind \in TypeKinds THEN "Prim"
    ELSE "Undetermined"

\* the nodes of the bindings and loop indices of a block at a scope depth,
\* in source order; breadth is the place of the enclosing statement among
\* its siblings
RECURSIVE BlockNodes(_, _)
RECURSIVE StatementNodes(_, _, _)
RECURSIVE StatementsNodes(_, _, _)
BlockNodes(block, depth) ==
    IF block.statements = <<>> THEN <<>>
    ELSE StatementsNodes(block.statements[1], 1, depth)
StatementsNodes(statements, i, depth) ==
    IF i > Len(statements) THEN <<>>
    ELSE StatementNodes(statements[i], depth, i - 1)
         \o StatementsNodes(statements, i + 1, depth)
StatementNodes(statement, depth, breadth) ==
    CASE statement.node = "VarBindingInit" ->
           <<SymbolNode_new(statement.bind_name,
                            BindingType(statement.ty_hint), depth, breadth)>>
      [] statement.node = "DefiniteLoop" ->
           <<refine_sym_kind_to(
                 SymbolNode_new(statement.index_name, "Prim", depth + 1,
                                breadth),
                 "ForLoopIndex")>>
           \o BlockNodes(statement.block, depth + 1)
      [] statement.node = "IndefiniteLoop" ->
           BlockNodes(statement.block, depth + 1)
      [] statement.node = "Selection" ->
           BlockNodes(statement.if_comp.block, depth + 1)
           \o (IF statement.elif_comp = <<>> THEN <<>>
               ELSE BlockNodes(statement.elif_comp[1].block, depth + 1))
           \o (IF statement.else_comp = <<>> THEN <<>>
               ELSE BlockNodes(statement.else_comp[1].block, depth + 1))
      [] OTHER -> <<>>

\* the nodes of the n-th declaration: the node of the definition, then for
\* a function those of its body
DeclarationNodes(declaration, n) ==
    CASE declaration.node = "Function" ->
           <<SymbolNode_new(declaration.signature.func_name, "Func", 0, n)>>
           \o BlockNodes(declaration.definition.block, 1)
      [] declaration.node = "Choice" ->
           <<SymbolNode_new(declaration.name, "Choice", 0, n)>>
      [] declaration.node = "Struct" ->
           <<SymbolNode_new(declaration.name, "Struct", 0, n)>>

\* the table after the pushes of the nodes from the i-th on
RECURSIVE PushAll(_, _, _)
PushAll(table, new_nodes, i) ==
    IF i > Len(new_nodes) THEN table
    ELSE PushAll(SymbolTable_push(table, new_nodes[i]), new_nodes, i + 1)

\* Parser::new on a token stream and SymbolTable::new, as run_compiler makes
\* them before `parser.parse(args.verbose_parse, &mut sym_table)`
InitEmit ==
    /\ content = <<>>
    /\ pre_status = "Ready"
    /\ trail = <<>>
    /\ diagnostics = <<>>
    /\ LexerNew(<<>>)
    /\ lex_pc = "idle"
    /\ \E s \in FragmentStreams(MaxFragments) \cup ProgramStreams :
          parser_tokens = TokenStream(s)
    /\ pos = 0
    /\ parse_pc = "ready"
    /\ parse_result = [call |-> "parse", res |-> "Continue", val |-> <<>>]
    /\ nodes = <<>>
    /\ sem_pc = "idle"
    /\ sem_result = None

\* one turn of the loop of parse_declarations under
\* `parse(verbose, &mut sym_table)`: the declaration recognized is pushed
\* with the bindings of its body; at the end of the loop the Program, or
\* the failure, is the result
ParseDeclarationInto ==
    /\ parse_pc = "ready"
    /\ \E turn \in {DeclarationsIteration(parse_result.val, pos,
                                          diagnostics)} :
          /\ parse_pc' = IF turn.res = "Continue" THEN "ready" ELSE "done"
          /\ parse_result' =
                 [call |-> "parse", res |-> turn.res,
                  val |-> IF turn.res = "Ok"
                          THEN [node |-> "Program",
                                declarations |-> turn.val]
                          ELSE turn.val]
          /\ pos' = turn.pos
          /\ diagnostics' = turn.diags
          /\ nodes' =
                 IF turn.res = "Continue"
                 THEN PushAll(nodes,
                              DeclarationNodes(turn.val[Len(turn.val)],
                                               Len(turn.val) - 1),
                              1)
                 ELSE nodes
    /\ UNCHANGED <<parser_tokens, sem_pc, sem_result, pre_vars, lexer_vars>>

NextEmit == ParseDeclarationInto

SpecEmit == InitEmit /\ [][NextEmit]_vars

(* ----------------- claims about symbol-table emission ------------------ *)
\* <<name token, type>> of the definitions in a table, and of the
\* declarations of a Program
DefinitionTypes == {"Func", "Choice", "Struct"}
DefinitionsIn(table) ==
    [i \in 1..Len(SelectSeq(table,
                            LAMBDA sn : sn.sym_ty \in DefinitionTypes)) |->
        <<SelectSeq(table, LAMBDA sn : sn.sym_ty \in DefinitionTypes)[i]
              .sym_name,
          SelectSeq(table, LAMBDA sn : sn.sym_ty \in DefinitionTypes)[i]
              .sym_ty>>]
DeclarationDefinition(declaration) ==
    CASE declaration.node = "Function" ->
           <<declaration.signature.func_name, "Func">>
      [] declaration.node = "Choice" -> <<declaration.name, "Choice">>
      [] declaration.node = "Struct" -> <<declaration.name, "Struct">>
DefinitionsOf(program) ==
    IF program.declarations = <<>> THEN <<>>
    ELSE [i \in 1..Len(program.declarations[1]) |->
            DeclarationDefinition(program.declarations[1][i])]
IsPrefix(s, t) == Len(s) <= Len(t) /\ SubSeq(t, 1, Len(s)) = s
ParsedInto == parse_pc = "done" /\ parse_result.res = "Ok"

\* C21: after a successful parse the definitions in the symbol table are,
\* in source order, the declarations of the Program: a Func node for a
\* function signature, a Choice node for a choice, a Struct node for a
\* structure; and every step of the parse only appends to the table.
C21_Emitted ==
    ParsedInto => DefinitionsIn(nodes) = DefinitionsOf(parse_result.val)
DriverChars == {"a", "1", ";", ":", " ", "_", "/", "*", EACUTE, EURO}

\* a driver that goes on whatever the stage returned
Continues_Whatever(res) == TRUE
\* the `?` of run_compiler after a stage: the next statement runs when the
\* stage returned Ok
Continues(res) == res = "Ok"

\* Preprocessor::new on the content of the source file
InitDriver ==
    /\ content \in Strings(DriverChars, MaxDriverLen)
    /\ pre_status = "Ready"
    /\ trail = <<>>
    /\ diagnostics = <<>>
    /\ LexerNew(<<>>)
    /\ lex_pc = "idle"
    /\ NoParser
    /\ NoSymbolTable

\* `.normalize_to_ascii()?`, `.remove_multiline_comment()?`,
\* `.remove_singleline_comments()`
DriverNormalizeToAscii ==
    /\ trail = <<>>
    /\ NormalizeToAscii
DriverRemoveMultilineComment ==
    /\ Len(trail) = 1
    /\ Continues(trail[1].status)
    /\ RemoveMultilineComment
DriverRemoveSinglelineComments ==
    /\ Len(trail) = 2
    /\ Continues(trail[2].status)
    /\ RemoveSinglelineComments

\* `Lexer::new(path, &cleaned_source)` and the entry of `lexer.lex(..)`,
\* once remove_singleline_comments has returned
DriverLex ==
    /\ Len(trail) = 3
    /\ pre_status = "Ready"
    /\ lex_pc = "idle"
    /\ source_content' = content
    /\ current_pos' = Span_new(content)
    /\ lex_pc' = "lex"
    /\ UNCHANGED <<current_tok, index, eof, hint_tok, found_error, tokens,
                   lex_result, diagnostics>>
    /\ UNCHANGED <<pre_vars, parser_vars, sym_vars>>

\* `AstParser::new(tokens, ..)`, `SymbolTable::new()` and the entry of
\* `parser.parse(.., &mut sym_table)` after `lexer.lex(..)?`
DriverParse ==
    /\ lex_pc = "done"
    /\ Continues(lex_result)
    /\ parse_pc = "idle"
    /\ parser_tokens' = tokens
    /\ pos' = 0
    /\ parse_pc' = "ready"
    /\ parse_result' = [call |-> "parse", res |-> "Continue", val |-> <<>>]
    /\ nodes' = <<>>
    /\ sem_pc' = "open"
    /\ UNCHANGED <<sem_result, diagnostics, pre_vars, lexer_vars>>

\* a duplicate-symbol pass of run_compiler that gave r, with `?`
DriverPass(sym_ty, r) ==
    /\ sem_result' = [pass |-> sym_ty, res |-> r.res]
    /\ sem_pc' = "done"
    /\ diagnostics' = diagnostics \o r.diags
    /\ UNCHANGED <<nodes, pre_vars, lexer_vars, parser_vars>>
\* `check_for_dup_funcs_syms(..)?` after `parser.parse(..)?`
DriverCheckForDupFuncs ==
    /\ parse_pc = "done"
    /\ Continues(parse_result.res)
    /\ sem_pc = "open"
    /\ DriverPass("Func", check_for_dup_funcs_syms)
\* `check_for_dup_choice_syms(..)?`
DriverCheckForDupChoices ==
    /\ sem_pc = "done"
    /\ sem_result.pass = "Func"
    /\ Continues(sem_result.res)
    /\ DriverPass("Choice", check_for_dup_choice_syms)
\* `check_for_dup_structs_syms(..)?`
DriverCheckForDupStructs ==
    /\ sem_pc = "done"
    /\ sem_result.pass = "Choice"
    /\ Continues(sem_result.res)
    /\ DriverPass("Struct", check_for_dup_structs_syms)

\* the steps of run_compiler; of the steps of lex, LexHintAssertPanic and
\* LexFloatDot are left out: normalize_to_ascii fails on control characters
\* and on `.`, which is not in VALID_PUNC
NextDriver ==
    \/ DriverNormalizeToAscii
    \/ DriverRemoveMultilineComment
    \/ DriverRemoveSinglelineComments
    \/ DriverLex
    \/ LexPeekCurrentPanic
    \/ LexDigitPeekPanic
    \/ LexInvalidIdent
    \/ LexDigit
    \/ LexMisplacedUnderscore
    \/ LexUnderscoreStart
    \/ LexWhitespace
    \/ LexIdentUnderscore
    \/ LexPunctPeekPanic
    \/ LexPunctToken
    \/ LexPunctError
    \/ LexBuild
    \/ LexReturn
    \/ DriverParse
    \/ ParseDeclarationInto
    \/ DriverCheckForDupFuncs
    \/ DriverCheckForDupChoices
    \/ DriverCheckForDupStructs

SpecDriver == InitDriver /\ [][NextDriver]_vars


(* ---------------------- claims about the driver ------------------------ *)
\* the preprocessor stages in the order of the chain, the stages that have
\* started, and a stage that did not return Ok
PreStages ==
    <<"normalize_to_ascii", "remove_multiline_comment",
      "remove_singleline_comments">>
PreStagesSucceeded ==
    Len(trail) = 3 /\ \A i \in 1..3 : trail[i].status = "Ok"
LexStarted == lex_pc # "idle"
ParseStarted == parse_pc # "idle"
StageFailed ==
    \/ \E i \in 1..Len(trail) : trail[i].status # "Ok"
    \/ lex_pc = "panic"
    \/ lex_pc = "done" /\ lex_result # "Ok"
    \/ parse_pc = "done" /\ parse_result.res # "Ok"
    \/ sem_pc = "done" /\ sem_result.res # "Ok"
Compiled ==
    sem_pc = "done" /\ sem_result.pass = "Struct" /\ sem_result.res = "Ok"

\* C22: the stages run in the order normalize-to-ASCII, multi-line comment
\* removal, single-line comment removal, lex, parse, duplicate-function
\* check, duplicate-choice check, duplicate-structure check; a stage starts
\* only after every earlier stage succeeded; once a stage has failed no
\* step is taken and the compile has not succeeded.
C22_Order ==
    /\ Len(trail) <= 3
    /\ \A i \in 1..Len(trail) :
          /\ trail[i].op = PreStages[i]
          /\ i > 1 => trail[i - 1].status = "Ok"
    /\ LexStarted => PreStagesSucceeded
    /\ ParseStarted => lex_pc = "done" /\ lex_result = "Ok"
    /\ sem_pc = "done" => parse_pc = "done" /\ parse_result.res = "Ok"
    /\ StageFailed => ~Compiled
C22_Step ==
    /\ ~StageFailed
    /\ sem_pc = "open" /\ sem_pc' = "done" => sem_result'.pass = "Func"
    /\ sem_pc = "done" =>
          <<sem_result.pass, sem_result'.pass>>
              \in {<<"Func", "Choice">>, <<"Choice", "Struct">>}
C22_StagesInOrderAndFailStop == []C22_Order /\ [][C22_Step]_vars
\* a compile in which the eight stages ran
C22_Witness == PreStagesSucceeded /\ lex_pc = "done" /\ Compiled


(* ------------------------- parser position ----------------------------- *)
\* Parser::advance_parser_pos, Parser::increment_parser_pos_by: saturating
\* at the largest usize, which no position of a token stream reaches
advance_parser_pos(p) == p + 1
increment_parser_pos_by(p, incre) == p + incre
\* a rewind that does not stop at 0
decrement_parser_pos_by_Unclamped(p, decre) == p - decre
\* Parser::decrement_parser_pos_by
decrement_parser_pos_by(p, decre) == saturating_sub(p, decre)

\* the token streams, the kinds asked for and the rewinds of the steps
PosTokens == {Id("a"), K("Semicolon"), K("EOF")}
PosStreams == Strings(PosTokens, MaxPosTokens)
PosKindSets == {{"Ident"}, {"Semicolon"}, {"Ident", "Sep", "EOF"}}
Rewinds == {0, 1, 3}

\* Parser::new on a token stream
InitPos ==
    /\ content = <<>>
    /\ pre_status = "Ready"
    /\ trail = <<>>
    /\ diagnostics = <<>>
    /\ LexerNew(<<>>)
    /\ lex_pc = "idle"
    /\ \E s \in PosStreams : parser_tokens = TokenStream(s)
    /\ pos = 0
    /\ parse_pc = "ready"
    /\ parse_result = [call |-> "new", res |-> "Ok", val |-> None]
    /\ NoSymbolTable

\* a consume or a peek made during a parse that gave r: a panic ends the
\* parse
PosCall(call, r) ==
    /\ parse_pc = "ready"
    /\ Len(r.diags) <= MaxPosDiags
    /\ parse_pc' = IF r.res = "Panic" THEN "done" ELSE "ready"
    /\ parse_result' = [call |-> call, res |-> r.res, val |-> None]
    /\ pos' = r.pos
    /\ diagnostics' = r.diags
    /\ UNCHANGED <<parser_tokens, pre_vars, lexer_vars, sym_vars>>
TryConsume ==
    \E v \in PosKindSets :
        PosCall("try_consume", try_consume(v, pos, diagnostics))
TryPeek ==
    \E v \in PosKindSets : PosCall("try_peek", try_peek(v, pos, diagnostics))
OptionalConsume ==
    \E v \in PosKindSets :
        PosCall("optional_consume", optional_consume(v, pos, diagnostics))
OptionalPeek ==
    \E v \in PosKindSets :
        PosCall("optional_peek", optional_peek(v, pos, diagnostics))
OptionalPeekNext ==
    \E v \in PosKindSets :
        PosCall("optional_peek_next",
                optional_peek_next(v, pos, diagnostics))
\* the lists: every token of the kinds asked for, and every separator, is
\* passed
OptionalConsumeList ==
    \E v \in PosKindSets :
        PosCall("optional_consume_list",
                optional_consume_list(v, pos, diagnostics))
TryOptionalConsumeListWithSeps ==
    \E v \in PosKindSets :
        PosCall("try_optional_consume_list_with_seps",
                try_optional_consume_list_with_seps(v, pos, diagnostics))
\* `self.advance_parser_pos()` and `self.increment_parser_pos_by(1)`: in
\* parse_expression, try_optional_consume_typed_ident and the lists they
\* follow a peek that found a token
Advance ==
    /\ parse_pc = "ready"
    /\ ~at_end_of_token_stream(pos)
    /\ \/ pos' = advance_parser_pos(pos)
       \/ pos' = increment_parser_pos_by(pos, 1)
    /\ parse_result' = [call |-> "advance", res |-> "Ok", val |-> None]
    /\ UNCHANGED <<parser_tokens, parse_pc, diagnostics, pre_vars,
                   lexer_vars, sym_vars>>
\* `self.decrement_parser_pos_by(..)` in parse_declarations and
\* parse_expression
Rewind ==
    /\ parse_pc = "ready"
    /\ \E decre \in Rewinds : pos' = decrement_parser_pos_by(pos, decre)
    /\ parse_result' = [call |-> "rewind", res |-> "Ok", val |-> None]
    /\ UNCHANGED <<parser_tokens, parse_pc, diagnostics, pre_vars,
                   lexer_vars, sym_vars>>

NextPos ==
    \/ TryConsume
    \/ TryPeek
    \/ OptionalConsume
    \/ OptionalPeek
    \/ OptionalPeekNext
    \/ OptionalConsumeList
    \/ TryOptionalConsumeListWithSeps
    \/ Advance
    \/ Rewind

SpecPos == InitPos /\ [][NextPos]_vars

(* ------------------ claims about the parser position ------------------- *)
\* C24: in every state of a parse the position p of the parser satisfies
\* 0 <= p <= |tokens|, whatever consumes, peeks, advances and rewinds were
\* made.
C24_PositionInBounds ==
    parse_pc # "idle" => 0 <= pos /\ pos <= Len(parser_tokens)
\* the position is at the end of a stream of several tokens after a
\* consume; a rewind by 3 from a position below 3 gave 0
C24_Witness ==
    /\ Len(parser_tokens) >= 2
    /\ pos = Len(parser_tokens)
    /\ parse_result.call = "try_consume"

=============================================================================
